---- MODULE Spec2Model ----
\* A model of lightarti-rest: the flat-file directory provider
\* (src/src/flatfiledirmgr.rs) and the cache-freshness controller
\* (src/src/client.rs).
EXTENDS Integers, Sequences, FiniteSets, TLC

VARIABLES
    cache,      \* content of the four directory files read by load_directory
    netdir,     \* FlatFileDirMgr.netdir : SharedMutArc<NetDir>, {} or {d}
    lpc,        \* position of each load_directory call
    lcall,      \* index in calls of the call each loader is running
    calls,      \* history: one record per load_directory call
    log,        \* history: every DirEvent accepted by tx_events, in order
    subs,       \* receivers of tx_events created by events()
    observed,   \* the last snapshot a reader got from netdir()
    dir_exists, \* whether the cache directory exists
    files,      \* the files of the cache directory: presence, mtime, origin
    now,        \* the current UTC day (days since 1970-01-01)
    upc,        \* position of the update_cache call
    ustate,     \* the UpdateNeeded that update_cache matched on
    ures,       \* the result of update_cache
    fetched,    \* history: the URLs update_cache has requested, in order
    archive,    \* the mtime of the entries of the downloaded archive
    after,      \* the UpdateNeeded of a classification after the refresh
    client,     \* Client::new_with_url: its position, result and TorClient
    simpl,      \* which of the send functions of the sources is called
    sver,       \* the protocol version of the request being sent
    scall,      \* the number of send calls made so far
    spc,        \* position of the send call
    retry,      \* the loop variable of the send: attempts made before this one
    sres,       \* the result of the send call
    writes,     \* times the request bytes were written during this call
    opened,     \* Tor streams opened during this call
    sstream,    \* the stream of the current attempt: 0 or the call that opened it
    sfail,      \* the error of the last failed attempt of this call
    raw,        \* the bytes that read_to_end has put in the buffer of the send
    resp,       \* the response that the send returns
    dimpl,      \* which FlatFileDirMgr of the sources the provider is
    bootstrap_rx_events, \* FlatFileDirMgr.bootstrap_rx_events: the status it holds
    fplat,      \* the platform of the build: which ffi module is compiled
    logger,     \* whether a global logger (subscriber) is installed
    linits,     \* the number of times the logger was initialised so far
    fcalls,     \* the number of calls the host has made into the library
    finput,     \* the arguments of the host's last request
    fcore,      \* what the core did in the host's last request
    fres,       \* history: what each call handed to the host, in order
    host,       \* the host runtime: running, or what a fault did to it
    docdir,     \* the side-loaded files that the arti DirMgr reads
    dstate,     \* the DirState that bootstrap::load is driving
    safety_counter, \* the safety_counter of bootstrap::load
    mpc,        \* position of the bootstrap_from_config call
    mres,       \* what the call has returned, or the panic that ended it
    mnetdir     \* DirMgr.netdir: whether it holds a directory

dirvars == <<cache, netdir, lpc, lcall, calls, log, subs, observed>>
cachevars ==
    <<dir_exists, files, now, upc, ustate, ures, fetched, archive, after,
      client>>
sendvars ==
    <<simpl, sver, scall, spc, retry, sres, writes, opened, sstream, sfail,
      raw, resp>>
\* The fields of the provider that no step of it assigns.
fixedvars == <<dimpl, bootstrap_rx_events>>
ffivars == <<fplat, logger, linits, fcalls, finput, fcore, fres, host>>
mgrvars == <<docdir, dstate, safety_counter, mpc, mres, mnetdir>>
vars == <<dirvars, cachevars, sendvars, fixedvars, ffivars, mgrvars>>

-----------------------------------------------------------------------------
\* Bounds of the model.

\* Largest number of relays listed by a consensus.
MaxRelays == 12
\* Largest number of lines of churn.txt.
MaxChurnLines == 3
\* Largest number of load_directory calls on one provider.
MaxLoads == 2
\* Largest number of send calls on one client.
MaxSends == 2
\* Latest time of a consensus lifetime, in steps of TimeStep.
MaxLifetime == 4
\* Largest number of calls the host makes into the library.
MaxCalls == 3
\* Largest number of header lines of a raw response.
MaxHeaders == 17
\* The days of the model: one day of early January 2024 (2024-01-02) and
\* NumDays days from FirstDay (2024-12-29) across the turn of the year.
YearBefore == 19724
FirstDay == 20086
NumDays == 10

-----------------------------------------------------------------------------
\* Program constants.

\* const CHURN_FRACTION: usize = 6
CHURN_FRACTION == 6
\* broadcast::channel(1)
EVENT_CAPACITY == 1
\* send_request: for retry in 0..5u32
SEND_REQUEST_TRIES == 5
\* get_result: for t in 0..2u32
GET_RESULT_TRIES == 2
\* raw_to_response: const MAX_HEADERS: usize = 16
MAX_HEADERS == 16
\* bootstrap::load: if safety_counter == 100 { panic!(..) }
SAFETY_LIMIT == 100

CONSENSUS_FILENAME == "consensus.txt"
MICRODESCRIPTORS_FILENAME == "microdescriptors.txt"
CERTIFICATE_FILENAME == "certificate.txt"
CHURN_FILENAME == "churn.txt"
AUTHORITY_FILENAME == "authority.json"

-----------------------------------------------------------------------------
\* Helpers.

Min(a, b) == IF a <= b THEN a ELSE b
Range(s) == {s[i] : i \in DOMAIN s}
SeqsUpTo(S, n) == UNION {[1..k -> S] : k \in 0..n}

-----------------------------------------------------------------------------
\* The side-loaded cache as load_directory reads it.

\* An identity that no consensus of the model lists, and a microdescriptor
\* digest that no consensus row references.
Stranger == MaxRelays + 1
UnlistedMd == MaxRelays + 1

\* One line of churn.txt: a blank line, the hex of a 20-byte identity, a line
\* that is not hex, or hex of another length.
EmptyLine == [t |-> "empty", id |-> 0]
IdLine(i) == [t |-> "id", id |-> i]
BadHexLine == [t |-> "badhex", id |-> 0]
BadLenLine == [t |-> "badlen", id |-> 0]

GoodLines == {EmptyLine, IdLine(1), IdLine(2), IdLine(Stranger)}
ChurnLines == GoodLines \cup {BadHexLine, BadLenLine}

\* What can be wrong with the files, one name per check of load_directory.
MissingDefects ==
    {"consensus_missing", "microdescriptors_missing", "certificate_missing",
     "churn_missing"}
Defects ==
    MissingDefects \cup
    {"consensus_unreadable", "churn_unreadable", "consensus_malformed",
     "consensus_untimely", "authorities_wrong", "certificate_unreadable",
     "certificate_malformed", "certificate_bad_signature",
     "certificate_untimely", "consensus_bad_signature",
     "microdescriptors_unreadable"}

\* The number of relays of the consensuses of the model: thresholds 0, 1, 2.
RelayCounts == {CHURN_FRACTION - 1, CHURN_FRACTION, MaxRelays}

CacheRecord(d, n, ch, nm, ep, co) ==
    [defects |-> d, n_relays |-> n, churn |-> ch, no_md |-> nm,
     enough_paths |-> ep, circmgr_ok |-> co]

\* Caches whose files all pass: every relay count, churn text, set of absent
\* microdescriptors and verdict of the two sufficiency checks.
SoundCaches ==
    {CacheRecord(d, n, ch, nm, ep, co) :
        d \in {{}, {"churn_unreadable"}}, n \in RelayCounts,
        ch \in SeqsUpTo(GoodLines, MaxChurnLines), nm \in {{}, {2}},
        ep \in BOOLEAN, co \in BOOLEAN}

\* Caches with one or two defects, and caches whose churn.txt has a
\* malformed line.
DefectiveCaches ==
    {CacheRecord(d, MaxRelays, <<IdLine(1)>>, {}, TRUE, TRUE) :
        d \in {x \in SUBSET Defects : Cardinality(x) \in 1..2}}
    \cup
    {CacheRecord({}, MaxRelays, ch, {}, TRUE, TRUE) :
        ch \in {x \in SeqsUpTo(ChurnLines, MaxChurnLines) :
                    \E i \in DOMAIN x : x[i] \in {BadHexLine, BadLenLine}}}

CacheContents == SoundCaches \cup DefectiveCaches

-----------------------------------------------------------------------------
\* Errors (tor_dirmgr::Error), by name.

Ok == "Ok"
ErrRequiredFiles == "CacheCorruption(required files missing in cache)"
ErrUnrecognizedAuthorities == "UnrecognizedAuthorities"
ErrParseConsensus == "CacheCorruption(Failed to parse consensus)"
ErrUntimely == "UntimelyObject"
ErrBadHex == "BadHexInCache"
ErrInvalidIdentity == "CacheCorruption(invalid RSA identity)"
ErrParseCertificate == "CacheCorruption(Failed to parse certificate)"
ErrCertificateSignature == "SignatureError"
ErrConsensusSignature == "CacheCorruption(Failed to validate consensus signature)"
ErrDirectoryNotPresent == "DirectoryNotPresent"

-----------------------------------------------------------------------------
\* FlatFileDirMgr: the pure part of load_directory.

\* FlatFileDirMgr::check_directory: the four files exist.
check_directory(c) ==
    IF c.defects \cap MissingDefects # {} THEN ErrRequiredFiles ELSE Ok

\* fs::read_to_string(churn).unwrap_or_else(|_| ""), then text.lines().
churn_text(c) ==
    IF c.defects \cap {"churn_missing", "churn_unreadable"} # {}
    THEN <<>> ELSE c.churn

\* The lines that pass .filter(|line| !line.is_empty()), in order.
RECURSIVE non_empty_lines(_)
non_empty_lines(text) ==
    IF text = <<>> THEN <<>>
    ELSE IF Head(text).t = "empty" THEN non_empty_lines(Tail(text))
    ELSE <<Head(text)>> \o non_empty_lines(Tail(text))

\* hex::decode and RsaIdentity::from_bytes of one line.
decode_line(line) ==
    IF line.t = "badhex" THEN ErrBadHex
    ELSE IF line.t = "badlen" THEN ErrInvalidIdentity
    ELSE Ok

\* parse_churn: the identities of the non-empty lines, or the error of the
\* first line that does not decode.
parse_churn(text) ==
    LET lines == non_empty_lines(text)
        bad == {i \in DOMAIN lines : decode_line(lines[i]) # Ok}
    IN  IF bad # {}
        THEN [err |-> decode_line(lines[CHOOSE i \in bad : \A j \in bad : i <= j]),
              churn |-> <<>>]
        ELSE [err |-> Ok, churn |-> [i \in DOMAIN lines |-> lines[i].id]]

\* let churn_threshold = unvalidated.n_relays() / CHURN_FRACTION
churn_threshold(n_relays) == n_relays \div CHURN_FRACTION

\* churn.len() - number_to_remove, with number_to_remove = churn.len() -
\* churn_threshold: the amount handed to choose_multiple.
sample_amount(churn, threshold) ==
    Len(churn) - (Len(churn) - threshold)

\* SliceRandom::choose_multiple: the sets of positions the generator can
\* pick, amount of them (all of them when the slice is shorter).
choose_multiple(churn, amount) ==
    {p \in SUBSET DOMAIN churn : Cardinality(p) = Min(amount, Len(churn))}

\* Whether load_consensus samples: churn.len() > churn_threshold.
samples(churn, threshold) == Len(churn) > threshold

\* The HashSet churn_set of load_consensus; pick is the generator's choice.
churn_set(churn, threshold, pick) ==
    IF samples(churn, threshold)
    THEN {churn[i] : i \in pick}
    ELSE Range(churn)

\* Mutant: the negation of the retain predicate is lost.
retain_relays_kept_churned(relays, cs) == {r \in relays : r \in cs}

\* relays.retain(|r| !churn_set.contains(r.rsa_identity()))
retain_relays(relays, cs) == {r \in relays : r \notin cs}

\* FlatFileDirMgr::load_consensus.
load_consensus(c, pick) ==
    LET parsed == parse_churn(churn_text(c))
        T == churn_threshold(c.n_relays)
        cs == churn_set(parsed.churn, T, pick)
        none == [err |-> Ok, relays |-> {}, churn |-> <<>>, churn_set |-> {},
                 sampled |-> FALSE]
    IN  IF c.defects \cap {"consensus_missing", "consensus_unreadable"} # {}
        THEN [none EXCEPT !.err = ErrUnrecognizedAuthorities]
        ELSE IF "consensus_malformed" \in c.defects
        THEN [none EXCEPT !.err = ErrParseConsensus]
        ELSE IF "consensus_untimely" \in c.defects
        THEN [none EXCEPT !.err = ErrUntimely]
        ELSE IF parsed.err # Ok
        THEN [none EXCEPT !.err = parsed.err]
        ELSE [err |-> Ok,
              relays |-> IF cs = {} THEN 1..c.n_relays
                         ELSE retain_relays(1..c.n_relays, cs),
              churn |-> parsed.churn,
              churn_set |-> cs,
              sampled |-> samples(parsed.churn, T)]

\* The choices open to rand::thread_rng() in a load of cache c.
rng_choices(c) ==
    LET parsed == parse_churn(churn_text(c))
        T == churn_threshold(c.n_relays)
    IN  IF parsed.err = Ok /\ samples(parsed.churn, T)
        THEN choose_multiple(parsed.churn, sample_amount(parsed.churn, T))
        ELSE {{}}

\* FlatFileDirMgr::load_certificate.
load_certificate(c) ==
    IF c.defects \cap {"certificate_missing", "certificate_unreadable"} # {}
    THEN ErrUnrecognizedAuthorities
    ELSE IF "certificate_malformed" \in c.defects THEN ErrParseCertificate
    ELSE IF "certificate_bad_signature" \in c.defects THEN ErrCertificateSignature
    ELSE IF "certificate_untimely" \in c.defects THEN ErrUntimely
    ELSE Ok

\* FlatFileDirMgr::load_microdesc: the digests of the microdescriptors of the
\* file (entries that do not parse are skipped by flatten()).
load_microdesc(c) ==
    IF c.defects \cap {"microdescriptors_missing", "microdescriptors_unreadable"} # {}
    THEN [err |-> ErrUnrecognizedAuthorities, udesc |-> {}]
    ELSE [err |-> Ok, udesc |-> ((1..c.n_relays) \ c.no_md) \cup {UnlistedMd}]

\* The digest of the microdescriptor that the consensus row of relay r lists.
md_digest(r) == r

\* PartialNetDir::new followed by add_microdesc for each md of udesc: a
\* relay's slot is filled when the file holds the microdescriptor it lists.
assemble(c, cons, udesc, k) ==
    [relays |-> cons.relays,
     md |-> [r \in cons.relays |->
                IF md_digest(r) \in udesc THEN {md_digest(r)} ELSE {}],
     churn_set |-> cons.churn_set,
     sampled |-> cons.sampled,
     src |-> c,
     load |-> k]

\* Mutant: the circuit manager is not asked.
is_sufficient_unwrap_only(c) == c.enough_paths

\* if let Ok(netdir) = partial.unwrap_if_sufficient() { if circmgr
\* .netdir_is_sufficient(&netdir) { self.netdir.replace(netdir) } }
is_sufficient(c) == c.enough_paths /\ c.circmgr_ok

\* Mutant: the directory is assembled and replaces the shared one before
\* the signature of the consensus is checked.
load_directory_early_replace(c, pick, k) ==
    LET cons == load_consensus(c, pick)
        cert == load_certificate(c)
        mds == load_microdesc(c)
        fail(e) == [err |-> e, dir |-> {}, publish |-> FALSE]
    IN  IF check_directory(c) # Ok THEN fail(check_directory(c))
        ELSE IF cons.err # Ok THEN fail(cons.err)
        ELSE IF "authorities_wrong" \in c.defects
        THEN fail(ErrUnrecognizedAuthorities)
        ELSE IF cert # Ok THEN fail(cert)
        ELSE IF mds.err # Ok THEN fail(mds.err)
        ELSE [err |-> IF "consensus_bad_signature" \in c.defects
                      THEN ErrConsensusSignature ELSE Ok,
              dir |-> {assemble(c, cons, mds.udesc, k)},
              publish |-> is_sufficient(c)]

\* The synchronous part of load_directory (up to self.netdir.replace) on cache
\* c as call number k: the error it returns, or the directory it assembled
\* and whether it replaces the shared one.
load_directory(c, pick, k) ==
    LET cons == load_consensus(c, pick)
        cert == load_certificate(c)
        mds == load_microdesc(c)
        fail(e) == [err |-> e, dir |-> {}, publish |-> FALSE]
    IN  IF check_directory(c) # Ok THEN fail(check_directory(c))
        ELSE IF cons.err # Ok THEN fail(cons.err)
        ELSE IF "authorities_wrong" \in c.defects
        THEN fail(ErrUnrecognizedAuthorities)
        ELSE IF cert # Ok THEN fail(cert)
        ELSE IF "consensus_bad_signature" \in c.defects
        THEN fail(ErrConsensusSignature)
        ELSE IF mds.err # Ok THEN fail(mds.err)
        ELSE [err |-> Ok,
              dir |-> {assemble(c, cons, mds.udesc, k)},
              publish |-> is_sufficient(c)]

\* The FlatFileDirMgr of src/src/flatfiledirmgr.rs and the one of
\* src/src/lightarti/flatfiledirmgr.rs.
DirMgrImpls == {"flatfiledirmgr", "lightarti::flatfiledirmgr"}

ErrIO == "IOError"
ErrConsensusNoLongerValid ==
    "BadNetworkConfig(The consensus file is no longer valid)"
ErrCertificateNoLongerValid ==
    "BadNetworkConfig(The certificate file is no longer valid)"

\* lightarti::FlatFileDirMgr::load_consensus: consensus.txt is read with ?,
\* churn.txt with unwrap_or_else(|_| "").
lightarti_load_consensus(c, pick) ==
    LET parsed == parse_churn(churn_text(c))
        T == churn_threshold(c.n_relays)
        cs == churn_set(parsed.churn, T, pick)
        none == [err |-> Ok, relays |-> {}, churn |-> <<>>, churn_set |-> {},
                 sampled |-> FALSE]
    IN  IF c.defects \cap {"consensus_missing", "consensus_unreadable"} # {}
        THEN [none EXCEPT !.err = ErrIO]
        ELSE IF "consensus_malformed" \in c.defects
        THEN [none EXCEPT !.err = ErrParseConsensus]
        ELSE IF "consensus_untimely" \in c.defects
        THEN [none EXCEPT !.err = ErrConsensusNoLongerValid]
        ELSE IF parsed.err # Ok
        THEN [none EXCEPT !.err = parsed.err]
        ELSE [err |-> Ok,
              relays |-> IF cs = {} THEN 1..c.n_relays
                         ELSE retain_relays(1..c.n_relays, cs),
              churn |-> parsed.churn,
              churn_set |-> cs,
              sampled |-> samples(parsed.churn, T)]

\* lightarti::FlatFileDirMgr::load_certificate.
lightarti_load_certificate(c) ==
    IF c.defects \cap {"certificate_missing", "certificate_unreadable"} # {}
    THEN ErrIO
    ELSE IF "certificate_malformed" \in c.defects THEN ErrParseCertificate
    ELSE IF "certificate_bad_signature" \in c.defects THEN ErrCertificateSignature
    ELSE IF "certificate_untimely" \in c.defects THEN ErrCertificateNoLongerValid
    ELSE Ok

\* lightarti::FlatFileDirMgr::load_microdesc.
lightarti_load_microdesc(c) ==
    IF c.defects \cap {"microdescriptors_missing", "microdescriptors_unreadable"} # {}
    THEN [err |-> ErrIO, udesc |-> {}]
    ELSE [err |-> Ok, udesc |-> ((1..c.n_relays) \ c.no_md) \cup {UnlistedMd}]

\* lightarti::FlatFileDirMgr::load_directory up to self.netdir.replace: as
\* load_directory, without the check of the directory.
lightarti_load_directory(c, pick, k) ==
    LET cons == lightarti_load_consensus(c, pick)
        cert == lightarti_load_certificate(c)
        mds == lightarti_load_microdesc(c)
        fail(e) == [err |-> e, dir |-> {}, publish |-> FALSE]
    IN  IF cons.err # Ok THEN fail(cons.err)
        ELSE IF "authorities_wrong" \in c.defects
        THEN fail(ErrUnrecognizedAuthorities)
        ELSE IF cert # Ok THEN fail(cert)
        ELSE IF "consensus_bad_signature" \in c.defects
        THEN fail(ErrConsensusSignature)
        ELSE IF mds.err # Ok THEN fail(mds.err)
        ELSE [err |-> Ok,
              dir |-> {assemble(c, cons, mds.udesc, k)},
              publish |-> is_sufficient(c)]

\* The load_directory of provider impl.
load_directory_of(impl, c, pick, k) ==
    IF impl = "flatfiledirmgr" THEN load_directory(c, pick, k)
    ELSE lightarti_load_directory(c, pick, k)

\* DirBootstrapStatus::default(), the value of a watch::channel() that was
\* never sent to.
DEFAULT_BOOTSTRAP_STATUS == "not ready"

\* NetDir::relays: the relays of a directory that are usable, i.e. those
\* with a microdescriptor.
advertised(d) == {r \in d.relays : d.md[r] # {}}

-----------------------------------------------------------------------------
\* The calendar of time::OffsetDateTime, in whole UTC days since 1970-01-01.

Days == {YearBefore} \cup (FirstDay .. (FirstDay + NumDays - 1))

\* The number of leap years before year y.
leaps_before(y) == ((y - 1) \div 4) - ((y - 1) \div 100) + ((y - 1) \div 400)

\* The day number of 1 January of year y.
year_start(y) == 365 * (y - 1970) + (leaps_before(y) - leaps_before(1970))

\* OffsetDateTime::year of day d.
year_of(d) ==
    LET y == 1970 + (d \div 366)
    IN  IF year_start(y + 1) <= d THEN y + 1 ELSE y

\* OffsetDateTime::ordinal: the day of the year, from 1.
ordinal(d) == d - year_start(year_of(d)) + 1

\* Weekday::number_days_from_monday; 1970-01-01 was a Thursday.
weekday(d) == (d + 3) % 7

\* OffsetDateTime::monday_based_week: the week of the year, week 1 starting
\* on the year's first Monday: (ordinal - days_from_monday + 6) / 7.
monday_based_week(d) == (ordinal(d) - weekday(d) + 6) \div 7

\* The ISO 8601 week of day d: the year and the week number of the Thursday
\* of the week of d.
iso_week(d) ==
    LET thursday == d - weekday(d) + 3
    IN  [year |-> year_of(thursday), week |-> ((ordinal(thursday) - 1) \div 7) + 1]

-----------------------------------------------------------------------------
\* Client: the cache directory and update_cache.

REQUIRED_FILES ==
    {CONSENSUS_FILENAME, MICRODESCRIPTORS_FILENAME, CERTIFICATE_FILENAME,
     CHURN_FILENAME}
FILES == REQUIRED_FILES \cup {AUTHORITY_FILENAME}

\* The entries of directory-cache.tgz, in the order they are unpacked.
ARCHIVE_ENTRIES ==
    <<AUTHORITY_FILENAME, CERTIFICATE_FILENAME, CHURN_FILENAME,
      CONSENSUS_FILENAME, MICRODESCRIPTORS_FILENAME>>

absent == [present |-> FALSE, mtime |-> 0, origin |-> "none"]
file(t, o) == [present |-> TRUE, mtime |-> t, origin |-> o]

\* check_directory(cache_path) as get_cache_state calls it: the directory
\* exists and holds the authority file and the four directory files.
cache_check_directory(exists, fs) ==
    IF ~exists THEN "CacheCorruption(cache-directory doesn't exist)"
    ELSE IF \E f \in FILES : ~fs[f].present
    THEN "CacheCorruption(required file(s) missing in cache)"
    ELSE Ok

\* Client::get_offset_date_time: the day of the file's mtime.
get_offset_date_time(fs, f) == fs[f].mtime

\* Mutant: a cache that fails check_directory only needs its churn refreshed.
get_cache_state_missing_is_churn(exists, fs, today) ==
    IF cache_check_directory(exists, fs) # Ok THEN "Churn"
    ELSE IF monday_based_week(get_offset_date_time(fs, MICRODESCRIPTORS_FILENAME))
             # monday_based_week(today)
    THEN "All"
    ELSE "None"

\* Client::get_cache_state: the UpdateNeeded of the cache at day today.
get_cache_state(exists, fs, today) ==
    IF cache_check_directory(exists, fs) # Ok THEN "All"
    ELSE IF monday_based_week(get_offset_date_time(fs, MICRODESCRIPTORS_FILENAME))
             # monday_based_week(today)
    THEN "All"
    ELSE LET churn == get_offset_date_time(fs, CHURN_FILENAME)
         IN  IF /\ monday_based_week(churn) = monday_based_week(today)
                /\ weekday(churn) = weekday(today)
             THEN "None"
             ELSE "Churn"

\* The cache directories Client::new can meet at day today: no directory,
\* an empty one, or one with the files of an earlier archive (all of day ta)
\* and a churn file of day tc, at most one of them deleted.
StartDirs(today) ==
    {[exists |-> FALSE, fs |-> [f \in FILES |-> absent]],
     [exists |-> TRUE, fs |-> [f \in FILES |-> absent]]}
    \cup
    {[exists |-> TRUE,
      fs |-> [f \in FILES |->
                IF f \in gone THEN absent
                ELSE IF f = CHURN_FILENAME THEN file(tc, "old")
                ELSE file(ta, "old")]] :
        ta \in {t \in Days : t <= today}, tc \in {t \in Days : t <= today},
        gone \in {{}} \cup {{f} : f \in FILES}}

\* Client::new_with_url at its entry on a cache directory: nothing returned,
\* no TorClient; exists and missing record the directory it was called on.
new_with_url_entry(exists, fs) ==
    [pc |-> "update_cache", res |-> "pending", tor_client |-> FALSE,
     exists |-> exists, missing |-> {f \in FILES : ~fs[f].present}]

\* The cache directory before Client::new, update_cache not yet called.
InitCacheDir ==
    /\ now \in Days
    /\ \E sd \in StartDirs(now) :
        /\ dir_exists = sd.exists
        /\ files = sd.fs
        /\ client = new_with_url_entry(sd.exists, sd.fs)
    /\ upc = "idle"
    /\ ustate = "None"
    /\ ures = "pending"
    /\ fetched = <<>>
    /\ archive = 0
    /\ after = "None"

\* The cache directory of the runs that only load: a fresh cache.
InitCacheDirFixed ==
    /\ now = FirstDay
    /\ dir_exists = TRUE
    /\ files = [f \in FILES |-> file(FirstDay, "old")]
    /\ client = new_with_url_entry(TRUE, files)
    /\ upc = "idle"
    /\ ustate = "None"
    /\ ures = "pending"
    /\ fetched = <<>>
    /\ archive = 0
    /\ after = "None"

\* update_cache: Self::get_cache_state(cache_path)?
Classify ==
    /\ upc = "idle"
    /\ ustate' = get_cache_state(dir_exists, files, now)
    /\ upc' = "classified"
    /\ UNCHANGED <<dir_exists, files, now, ures, fetched, archive, after>>
    /\ UNCHANGED <<client, dirvars, sendvars, fixedvars, ffivars, mgrvars>>

\* Mutant: a cache that needs no update has its churn file fetched too.
update_cache_first_always_churn(state) == "churn_fetch"

\* update_cache: the first step of the arm that the match selects.
\* None => Ok(()); Churn and All both start with download_churn_file.
update_cache_first(state) ==
    IF state = "None" THEN "done" ELSE "churn_fetch"

\* Mutant: the archive is fetched after the churn file in every arm.
update_cache_after_churn_always_archive(state) == "archive_fetch"

\* update_cache: what follows a successful download_churn_file. The Churn arm
\* returns its result; the All arm goes on to download_full_cache.
update_cache_after_churn(state) ==
    IF state = "Churn" THEN "done" ELSE "archive_fetch"

\* update_cache: the match on the state.
Dispatch ==
    /\ upc = "classified"
    /\ upc' = update_cache_first(ustate)
    /\ ures' = IF upc' = "done" THEN Ok ELSE ures
    /\ UNCHANGED <<dir_exists, files, now, ustate, fetched, archive, after>>
    /\ UNCHANGED <<client, dirvars, sendvars, fixedvars, ffivars, mgrvars>>

\* download_churn_file: reqwest::get(churn_cache).await?.bytes().await?
ChurnFetch ==
    /\ upc = "churn_fetch"
    /\ fetched' = Append(fetched, "churn")
    /\ \/ upc' = "churn_create" /\ ures' = ures
       \/ upc' = "done" /\ ures' = "Err(network)"
    /\ UNCHANGED <<dir_exists, files, now, ustate, archive, after>>
    /\ UNCHANGED <<client, dirvars, sendvars, fixedvars, ffivars, mgrvars>>

\* download_churn_file: File::create(cache_path.join(CHURN_FILENAME))?
\* truncates or creates the file; it fails when the directory is missing.
ChurnCreate ==
    /\ upc = "churn_create"
    /\ IF dir_exists
       THEN /\ files' = [files EXCEPT ![CHURN_FILENAME] = file(now, "truncated")]
            /\ upc' = "churn_write"
            /\ ures' = ures
       ELSE /\ files' = files
            /\ upc' = "done"
            /\ ures' = "Err(io)"
    /\ UNCHANGED <<dir_exists, now, ustate, fetched, archive, after>>
    /\ UNCHANGED <<client, dirvars, sendvars, fixedvars, ffivars, mgrvars>>

\* download_churn_file: f.write_all(churn.as_ref())?, which may fail after
\* a part of the bytes; then update_cache returns or goes on to the archive.
ChurnWrite ==
    /\ upc = "churn_write"
    /\ \/ /\ files' = [files EXCEPT ![CHURN_FILENAME] = file(now, "churn")]
          /\ upc' = update_cache_after_churn(ustate)
          /\ ures' = IF upc' = "done" THEN Ok ELSE ures
       \/ /\ files' = [files EXCEPT ![CHURN_FILENAME] = file(now, "partial")]
          /\ upc' = "done"
          /\ ures' = "Err(io)"
    /\ UNCHANGED <<dir_exists, now, ustate, fetched, archive, after>>
    /\ UNCHANGED <<client, dirvars, sendvars, fixedvars, ffivars, mgrvars>>

\* download_full_cache: arkiv::Archive::download(directory_cache)?; the
\* entries of the archive were written at some day up to today.
ArchiveFetch ==
    /\ upc = "archive_fetch"
    /\ fetched' = Append(fetched, "archive")
    /\ \/ /\ upc' = "archive_unpack"
          /\ ures' = ures
          /\ \E t \in Days : t <= now /\ archive' = t
       \/ /\ upc' = "done"
          /\ ures' = "Err(network)"
          /\ archive' = archive
    /\ UNCHANGED <<dir_exists, files, now, ustate, after>>
    /\ UNCHANGED <<client, dirvars, sendvars, fixedvars, ffivars, mgrvars>>

\* The cache files after the first n entries of the archive are unpacked:
\* each entry overwrites the file of its name and keeps the entry's mtime.
unpack(fs, n, t) ==
    [f \in FILES |->
        IF \E i \in 1..n : ARCHIVE_ENTRIES[i] = f THEN file(t, "archive")
        ELSE fs[f]]

\* download_full_cache: .unpack(cache_path)?, which may fail after some of
\* the entries.
ArchiveUnpack ==
    /\ upc = "archive_unpack"
    /\ \E n \in 0..Len(ARCHIVE_ENTRIES) :
        /\ files' = unpack(files, n, archive)
        /\ upc' = "done"
        /\ ures' = IF n = Len(ARCHIVE_ENTRIES) THEN Ok ELSE "Err(io)"
    /\ dir_exists' = TRUE
    /\ UNCHANGED <<now, ustate, fetched, archive, after>>
    /\ UNCHANGED <<client, dirvars, sendvars, fixedvars, ffivars, mgrvars>>

\* get_cache_state called a second time on the same directory, no update in
\* between, at a day t of the clock at or after the first call's.
ClassifyAgain ==
    /\ upc = "classified"
    /\ \E t \in Days :
        /\ t >= now
        /\ now' = t
        /\ after' = get_cache_state(dir_exists, files, t)
    /\ upc' = "checked"
    /\ UNCHANGED <<dir_exists, files, ustate, ures, fetched, archive>>
    /\ UNCHANGED <<client, dirvars, sendvars, fixedvars, ffivars, mgrvars>>

\* get_cache_state called again right after update_cache has returned.
ClassifyAfter ==
    /\ upc = "done"
    /\ after' = get_cache_state(dir_exists, files, now)
    /\ upc' = "checked"
    /\ UNCHANGED <<dir_exists, files, now, ustate, ures, fetched, archive>>
    /\ UNCHANGED <<client, dirvars, sendvars, fixedvars, ffivars, mgrvars>>

-----------------------------------------------------------------------------
\* FlatFileDirMgr: state and steps.

\* The tasks that call load_directory (bootstrap), the streams returned by
\* events().
Loaders == {"a", "b"}
Subscribers == {"s", "t"}

\* Mutant: the first event sent is NewDescriptors.
first_event_descriptors == "NewDescriptors"

\* The two events of a load, in the order load_directory sends them.
first_event == "NewConsensus"
second_event == "NewDescriptors"

\* The receivers of tx_events that are alive.
receivers == {s \in Subscribers : subs[s].active}

\* The events the broadcast buffer still holds: those that some live
\* receiver has not read yet.
buffered ==
    IF receivers = {} THEN 0
    ELSE LET oldest == CHOOSE p \in {subs[s].pos : s \in receivers} :
                           \A s \in receivers : p <= subs[s].pos
         IN  Len(log) + 1 - oldest

\* The events call k has put on the channel, in order.
RECURSIVE events_of(_, _)
events_of(k, l) ==
    IF l = <<>> THEN <<>>
    ELSE IF Head(l).load = k THEN <<Head(l).ev>> \o events_of(k, Tail(l))
    ELSE events_of(k, Tail(l))

\* The events a subscriber has read since it subscribed.
stream(s) == SubSeq(log, subs[s].start, subs[s].pos - 1)

\* from_config: no directory, a channel whose first receiver is dropped.
InitProvider(contents) ==
    /\ cache \in contents
    /\ netdir = {}
    /\ lpc = [l \in Loaders |-> "idle"]
    /\ lcall = [l \in Loaders |-> 0]
    /\ calls = <<>>
    /\ log = <<>>
    /\ subs = [s \in Subscribers |-> [active |-> FALSE, start |-> 1, pos |-> 1]]
    /\ observed = {}
    /\ bootstrap_rx_events = DEFAULT_BOOTSTRAP_STATUS

\* load_directory from its entry to the first await: the files are read and
\* checked, the directory is assembled and, if sufficient, replaces the
\* shared one; then the call either returns or goes on to send the events.
LoadStart(l) ==
    /\ lpc[l] = "idle"
    /\ Len(calls) < MaxLoads
    /\ \E pick \in rng_choices(cache) :
        LET k == Len(calls) + 1
            o == load_directory_of(dimpl, cache, pick, k)
            nd == IF o.publish THEN o.dir ELSE netdir
            res == IF o.err # Ok THEN o.err
                   ELSE IF nd = {} THEN "false"
                   ELSE "pending"
        IN  /\ netdir' = nd
            /\ calls' = Append(calls, [res |-> res, dir |-> o.dir,
                                       replaced |-> o.publish])
            /\ lcall' = [lcall EXCEPT ![l] = k]
            /\ lpc' = [lpc EXCEPT ![l] =
                         IF res = "pending" THEN "send_consensus" ELSE "done"]
    /\ UNCHANGED <<cache, log, subs, observed>>
    /\ UNCHANGED <<cachevars, sendvars, fixedvars, ffivars, mgrvars>>

\* tx.send(DirEvent::NewConsensus).await: rejected when no receiver is
\* alive (the call returns DirectoryNotPresent), suspended while the buffer
\* is full, accepted otherwise.
SendNewConsensus(l) ==
    /\ lpc[l] = "send_consensus"
    /\ IF receivers = {}
       THEN /\ calls' = [calls EXCEPT ![lcall[l]].res = ErrDirectoryNotPresent]
            /\ lpc' = [lpc EXCEPT ![l] = "done"]
            /\ log' = log
       ELSE /\ buffered < EVENT_CAPACITY
            /\ log' = Append(log, [ev |-> first_event, load |-> lcall[l]])
            /\ calls' = calls
            /\ lpc' = [lpc EXCEPT ![l] = "send_descriptors"]
    /\ UNCHANGED <<cache, netdir, lcall, subs, observed>>
    /\ UNCHANGED <<cachevars, sendvars, fixedvars, ffivars, mgrvars>>

\* tx.send(DirEvent::NewDescriptors).await in the same way, then Ok(true).
SendNewDescriptors(l) ==
    /\ lpc[l] = "send_descriptors"
    /\ IF receivers = {}
       THEN /\ calls' = [calls EXCEPT ![lcall[l]].res = ErrDirectoryNotPresent]
            /\ lpc' = [lpc EXCEPT ![l] = "done"]
            /\ log' = log
       ELSE /\ buffered < EVENT_CAPACITY
            /\ log' = Append(log, [ev |-> second_event, load |-> lcall[l]])
            /\ calls' = [calls EXCEPT ![lcall[l]].res = "true"]
            /\ lpc' = [lpc EXCEPT ![l] = "done"]
    /\ UNCHANGED <<cache, netdir, lcall, subs, observed>>
    /\ UNCHANGED <<cachevars, sendvars, fixedvars, ffivars, mgrvars>>

\* The call has returned; its task may call again.
Return(l) ==
    /\ lpc[l] = "done"
    /\ lpc' = [lpc EXCEPT ![l] = "idle"]
    /\ lcall' = [lcall EXCEPT ![l] = 0]
    /\ UNCHANGED <<cache, netdir, calls, log, subs, observed>>
    /\ UNCHANGED <<cachevars, sendvars, fixedvars, ffivars, mgrvars>>

\* events(): tx_events.subscribe(), a receiver of the events sent from now on.
Subscribe(s) ==
    /\ ~subs[s].active
    /\ subs' = [subs EXCEPT ![s] =
                  [active |-> TRUE, start |-> Len(log) + 1, pos |-> Len(log) + 1]]
    /\ UNCHANGED <<cache, netdir, lpc, lcall, calls, log, observed>>
    /\ UNCHANGED <<cachevars, sendvars, fixedvars, ffivars, mgrvars>>

\* A subscriber reads the next event of its stream.
Recv(s) ==
    /\ subs[s].active
    /\ subs[s].pos <= Len(log)
    /\ subs' = [subs EXCEPT ![s].pos = @ + 1]
    /\ UNCHANGED <<cache, netdir, lpc, lcall, calls, log, observed>>
    /\ UNCHANGED <<cachevars, sendvars, fixedvars, ffivars, mgrvars>>

\* A subscriber drops its stream.
Unsubscribe(s) ==
    /\ subs[s].active
    /\ subs' = [subs EXCEPT ![s] = [active |-> FALSE, start |-> 1, pos |-> 1]]
    /\ UNCHANGED <<cache, netdir, lpc, lcall, calls, log, observed>>
    /\ UNCHANGED <<cachevars, sendvars, fixedvars, ffivars, mgrvars>>

\* NetDirProvider::netdir / opt_netdir: a reader takes a snapshot.
ReadNetdir ==
    /\ observed' = netdir
    /\ UNCHANGED <<cache, netdir, lpc, lcall, calls, log, subs>>
    /\ UNCHANGED <<cachevars, sendvars, fixedvars, ffivars, mgrvars>>

\* The files of the cache directory are replaced between two loads.
ReplaceCache(contents) ==
    /\ calls # <<>>
    /\ Len(calls) < MaxLoads
    /\ \E c \in contents : c # cache /\ cache' = c
    /\ UNCHANGED <<netdir, lpc, lcall, calls, log, subs, observed>>
    /\ UNCHANGED <<cachevars, sendvars, fixedvars, ffivars, mgrvars>>

\* The caches of the provider runs: one consensus, every single defect and
\* every verdict of the sufficiency checks.
ProviderCaches ==
    {c \in CacheContents :
        /\ c.n_relays = MaxRelays
        /\ c.churn = <<IdLine(1)>>
        /\ c.no_md = {}
        /\ Cardinality(c.defects) <= 1}

-----------------------------------------------------------------------------------------------------------------------------------------------------
\* http.rs: raw_to_response.

ErrParseResponse == "parse response"
ErrUnfinishedResponse == "unfinished response"

\* The numbers of header lines of the raw responses of the model.
HeaderCounts == {0, 1, MAX_HEADERS, MaxHeaders}

\* The bytes in the buffer of read_to_end when it returns: a status line
\* with a status and a minor version, headers header lines and, when the
\* head is complete, a body of body bytes; or bytes that are no HTTP
\* response. end tells how read_to_end has returned: at the end of the
\* stream, with the error UnexpectedEof, or with another error.
ReadEnds == {"eof", "UnexpectedEof", "error"}
Bytes(k, st, v, h, b, e) ==
    [kind |-> k, status |-> st, version |-> v, headers |-> h, body |-> b,
     end |-> e]
NoBytes == Bytes("none", 0, 0, 0, 0, "eof")
RawResponses ==
    {Bytes("complete", st, v, h, b, e) :
        st \in {200, 404}, v \in {0, 1}, h \in HeaderCounts, b \in {0, 1},
        e \in ReadEnds}
    \cup {Bytes("partial", 200, 0, h, 0, e) : h \in HeaderCounts, e \in ReadEnds}
    \cup {Bytes("garbage", 0, 0, 0, 0, e) : e \in ReadEnds}

\* A response: an http::Response (Client::send) or the text of the bytes
\* (send_request, get_result).
Response(f, st, v, h, b) ==
    [form |-> f, status |-> st, version |-> v, headers |-> h, body |-> b]
NoResponse == Response("none", 0, "none", 0, 0)

\* raw_to_response: httparse::Response::parse into an array of MAX_HEADERS
\* headers fails on bytes that are no response and on a header that finds
\* the array full; a head that is not complete is "unfinished response";
\* otherwise the status, the version, every header and the rest as body.
raw_to_response(r) ==
    IF r.kind \notin {"complete", "partial"} \/ r.headers > MAX_HEADERS
    THEN [err |-> ErrParseResponse, resp |-> NoResponse]
    ELSE IF r.kind = "partial"
    THEN [err |-> ErrUnfinishedResponse, resp |-> NoResponse]
    ELSE [err |-> Ok,
          resp |-> Response("Response", r.status,
                            IF r.version = 0 THEN "HTTP/1.0" ELSE "HTTP/1.1",
                            r.headers, r.body)]

\* String::from_utf8_lossy(&res).to_string(): the bytes as text.
from_utf8_lossy(r) ==
    Response("String", r.status, IF r.version = 0 THEN "HTTP/1.0" ELSE "HTTP/1.1",
             r.headers, r.body)

\* How the send takes the end of read_to_end: Client::send goes on after a
\* return at the end of the stream and after UnexpectedEof; send_request and
\* get_result go on only after a return without error.
read_accepted(impl, e) ==
    IF impl = "Client::send" THEN e \in {"eof", "UnexpectedEof"}
    ELSE e = "eof"

-----
\* Sending a request: Client::send (src/src/client.rs), send_request
\* (src/src/lightarti.rs) and get_result (src/src/arti.rs).

SendImpls == {"Client::send", "send_request", "get_result"}
Versions == {"HTTP/1.0", "HTTP/1.1"}

ErrUnsupportedVersion == "only supports HTTP version 1.0"
ErrNoResponse == "Couldn't get response"
ErrTorConnect == "tor connect"
ErrTlsConnect == "tls connect"
ErrWriteRequest == "write request"
ErrFlush == "flush"
ErrReadResponse == "read response"
Panic == "panic"

\* Mutant: every protocol version is sent.
version_supported_any(v) == TRUE

\* Client::send: request.version() != http::Version::HTTP_10 => bail!
version_supported(v) == v = "HTTP/1.0"

\* The versions a caller can ask for: Client::send takes an http::Request,
\* the other two take the request as text and look at no version.
versions_of(impl) == IF impl = "Client::send" THEN Versions ELSE {"HTTP/1.0"}

\* The number of attempts the send's loop allows.
tries(impl) ==
    IF impl = "send_request" THEN SEND_REQUEST_TRIES
    ELSE IF impl = "get_result" THEN GET_RESULT_TRIES
    ELSE 1

\* What the send does with the error e of an attempt: send_request logs any
\* error and goes round its loop; get_result returns the error of connect and
\* of the TLS handshake (?), unwraps the result of write_all and goes round
\* on a failed read; Client::send returns every error.
on_error(impl, e) ==
    IF impl = "send_request" THEN "again"
    ELSE IF impl = "get_result"
    THEN IF e \in {ErrTorConnect, ErrTlsConnect} THEN "return"
         ELSE IF e = ErrWriteRequest THEN "panic"
         ELSE "again"
    ELSE "return"

\* The state of the send after attempt number r (from 0) has failed with e.
after_error(impl, e, r) ==
    IF on_error(impl, e) = "return"
    THEN [pc |-> "done", retry |-> r, res |-> e]
    ELSE IF on_error(impl, e) = "panic"
    THEN [pc |-> "done", retry |-> r, res |-> Panic]
    ELSE IF r + 1 < tries(impl)
    THEN [pc |-> "connect", retry |-> r + 1, res |-> "pending"]
    ELSE [pc |-> "done", retry |-> r, res |-> ErrNoResponse]

\* No send call is running.
InitSend ==
    /\ simpl \in SendImpls
    /\ sver = "HTTP/1.0"
    /\ scall = 0
    /\ spc = "idle"
    /\ retry = 0
    /\ sres = "pending"
    /\ writes = 0
    /\ opened = 0
    /\ sstream = 0
    /\ sfail = "none"
    /\ raw = NoBytes
    /\ resp = NoResponse

InitSendFixed == InitSend /\ simpl = "Client::send"

\* The entry of the send: the check of the version (Client::send), then the
\* first attempt.
SendCall ==
    /\ spc = "idle"
    /\ scall < MaxSends
    /\ scall' = scall + 1
    /\ \E v \in versions_of(simpl) :
        /\ sver' = v
        /\ IF simpl = "Client::send" /\ ~version_supported(v)
           THEN spc' = "done" /\ sres' = ErrUnsupportedVersion
           ELSE spc' = "connect" /\ sres' = "pending"
    /\ retry' = 0
    /\ writes' = 0
    /\ opened' = 0
    /\ sstream' = 0
    /\ sfail' = "none"
    /\ raw' = NoBytes
    /\ resp' = NoResponse
    /\ UNCHANGED simpl
    /\ UNCHANGED <<dirvars, cachevars, fixedvars, ffivars, mgrvars>>

\* tor.connect((host, 443)).await: a new stream, or an error.
Connect ==
    /\ spc = "connect"
    /\ \E ok \in BOOLEAN :
        IF ok
        THEN /\ sstream' = scall
             /\ opened' = opened + 1
             /\ spc' = "tls"
             /\ UNCHANGED <<retry, sres, sfail>>
        ELSE LET a == after_error(simpl, ErrTorConnect, retry)
             IN  /\ spc' = a.pc /\ retry' = a.retry /\ sres' = a.res
                 /\ sfail' = ErrTorConnect
                 /\ UNCHANGED <<sstream, opened>>
    /\ raw' = NoBytes
    /\ UNCHANGED <<simpl, sver, scall, writes, resp>>
    /\ UNCHANGED <<dirvars, cachevars, fixedvars, ffivars, mgrvars>>

\* The TLS client handshake on the stream; a failure drops the stream.
TlsConnect ==
    /\ spc = "tls"
    /\ \E ok \in BOOLEAN :
        IF ok
        THEN /\ spc' = "write"
             /\ UNCHANGED <<retry, sres, sfail, sstream>>
        ELSE LET a == after_error(simpl, ErrTlsConnect, retry)
             IN  /\ spc' = a.pc /\ retry' = a.retry /\ sres' = a.res
                 /\ sfail' = ErrTlsConnect
                 /\ sstream' = 0
    /\ UNCHANGED <<simpl, sver, scall, writes, opened, raw, resp>>
    /\ UNCHANGED <<dirvars, cachevars, fixedvars, ffivars, mgrvars>>

\* tls_stream.write_all(request): the request bytes go to the destination;
\* get_result does not flush.
WriteRequest ==
    /\ spc = "write"
    /\ \E ok \in BOOLEAN :
        IF ok
        THEN /\ writes' = writes + 1
             /\ spc' = IF simpl = "get_result" THEN "read" ELSE "flush"
             /\ UNCHANGED <<retry, sres, sfail, sstream>>
        ELSE LET a == after_error(simpl, ErrWriteRequest, retry)
             IN  /\ spc' = a.pc /\ retry' = a.retry /\ sres' = a.res
                 /\ sfail' = ErrWriteRequest
                 /\ sstream' = 0
                 /\ writes' = writes
    /\ UNCHANGED <<simpl, sver, scall, opened, raw, resp>>
    /\ UNCHANGED <<dirvars, cachevars, fixedvars, ffivars, mgrvars>>

\* tls_stream.flush().await
Flush ==
    /\ spc = "flush"
    /\ \E ok \in BOOLEAN :
        IF ok
        THEN /\ spc' = "read"
             /\ UNCHANGED <<retry, sres, sfail, sstream>>
        ELSE LET a == after_error(simpl, ErrFlush, retry)
             IN  /\ spc' = a.pc /\ retry' = a.retry /\ sres' = a.res
                 /\ sfail' = ErrFlush
                 /\ sstream' = 0
    /\ UNCHANGED <<simpl, sver, scall, writes, opened, raw, resp>>
    /\ UNCHANGED <<dirvars, cachevars, fixedvars, ffivars, mgrvars>>

\* tls_stream.read_to_end(&mut res): bytes arrive and the read returns. When
\* the send accepts that end, Client::send parses the bytes and returns the
\* response or the error of the parse, and send_request and get_result
\* return the bytes as text; otherwise the attempt has failed. The stream is
\* dropped at the end of the attempt.
ReadResponse ==
    /\ spc = "read"
    /\ \E r \in RawResponses :
        /\ raw' = r
        /\ IF read_accepted(simpl, r.end)
           THEN /\ spc' = "done"
                /\ IF simpl = "Client::send"
                   THEN /\ sres' = raw_to_response(r).err
                        /\ resp' = raw_to_response(r).resp
                   ELSE /\ sres' = Ok
                        /\ resp' = from_utf8_lossy(r)
                /\ UNCHANGED <<retry, sfail>>
           ELSE LET a == after_error(simpl, ErrReadResponse, retry)
                IN  /\ spc' = a.pc /\ retry' = a.retry /\ sres' = a.res
                    /\ sfail' = ErrReadResponse
                    /\ resp' = resp
    /\ sstream' = 0
    /\ UNCHANGED <<simpl, sver, scall, writes, opened>>
    /\ UNCHANGED <<dirvars, cachevars, fixedvars, ffivars, mgrvars>>

\* The send has returned; the client can be used for another send.
SendReturn ==
    /\ spc = "done"
    /\ spc' = "idle"
    /\ retry' = 0
    /\ sres' = "pending"
    /\ writes' = 0
    /\ opened' = 0
    /\ sfail' = "none"
    /\ raw' = NoBytes
    /\ resp' = NoResponse
    /\ UNCHANGED <<simpl, sver, scall, sstream>>
    /\ UNCHANGED <<dirvars, cachevars, fixedvars, ffivars, mgrvars>>

-----------------------------------------------------------------------------
\* Client::new_with_url after update_cache has returned.

\* Mutant: the error of update_cache is dropped and the client is built.
after_update_cache_ignore_error(res) == "tor_config"

\* Self::update_cache(..).await? : an error returns from new_with_url.
after_update_cache(res) == IF res # Ok THEN "returned" ELSE "tor_config"

\* Client::check_directory: the directory and the authority file exist.
client_check_directory(exists, fs) ==
    IF ~exists THEN "CacheCorruption(directory cache does not exist)"
    ELSE IF ~fs[AUTHORITY_FILENAME].present
    THEN "CacheCorruption(required file(s) missing in cache)"
    ELSE Ok

\* The cache that load_directory reads from the directory: content c, less
\* the files that are absent.
cache_on_disk(c, fs) ==
    [c EXCEPT !.defects = @ \cup
        {d \in MissingDefects :
            \/ d = "consensus_missing" /\ ~fs[CONSENSUS_FILENAME].present
            \/ d = "microdescriptors_missing"
                /\ ~fs[MICRODESCRIPTORS_FILENAME].present
            \/ d = "certificate_missing" /\ ~fs[CERTIFICATE_FILENAME].present
            \/ d = "churn_missing" /\ ~fs[CHURN_FILENAME].present}]

\* new_with_url: the ? on the result of update_cache.
UpdateCacheReturn ==
    /\ client.pc = "update_cache"
    /\ upc = "done"
    /\ client' = [client EXCEPT
                    !.pc = after_update_cache(ures),
                    !.res = IF after_update_cache(ures) = "returned"
                            THEN ures ELSE @]
    /\ UNCHANGED <<dir_exists, files, now, upc, ustate, ures, fetched,
                   archive, after>>
    /\ UNCHANGED <<dirvars, sendvars, fixedvars, ffivars, mgrvars>>

\* new_with_url: Self::tor_config(cache_path), which checks the directory
\* and then reads and parses authority.json (either may fail).
TorConfig ==
    /\ client.pc = "tor_config"
    /\ LET e == client_check_directory(dir_exists, files)
       IN  IF e # Ok
           THEN client' = [client EXCEPT !.pc = "returned", !.res = e]
           ELSE \/ client' = [client EXCEPT !.pc = "create_bootstrapped"]
                \/ client' = [client EXCEPT !.pc = "returned",
                                            !.res = "Err(load config)"]
    /\ UNCHANGED <<dir_exists, files, now, upc, ustate, ures, fetched,
                   archive, after>>
    /\ UNCHANGED <<dirvars, sendvars, fixedvars, ffivars, mgrvars>>

\* new_with_url: create_bootstrapped, which builds the FlatFileDirMgr and
\* awaits bootstrap, i.e. one load_directory on the files of the directory.
\* The two events are accepted when the client's tasks hold a receiver and
\* rejected otherwise.
Bootstrap ==
    /\ client.pc = "create_bootstrapped"
    /\ LET c == cache_on_disk(cache, files)
       IN  \E pick \in rng_choices(c), accepted \in BOOLEAN :
            LET k == Len(calls) + 1
                o == load_directory_of(dimpl, c, pick, k)
                nd == IF o.publish THEN o.dir ELSE netdir
                res == IF o.err # Ok THEN o.err
                       ELSE IF nd = {} THEN "false"
                       ELSE IF accepted THEN "true"
                       ELSE ErrDirectoryNotPresent
            IN  /\ netdir' = nd
                /\ calls' = Append(calls, [res |-> res, dir |-> o.dir,
                                           replaced |-> o.publish])
                /\ log' = IF res = "true"
                          THEN log \o <<[ev |-> first_event, load |-> k],
                                        [ev |-> second_event, load |-> k]>>
                          ELSE log
                /\ client' = [client EXCEPT
                                !.pc = "returned",
                                !.res = IF res \in {"true", "false"}
                                        THEN Ok ELSE res,
                                !.tor_client = res \in {"true", "false"}]
    /\ UNCHANGED <<cache, lpc, lcall, subs, observed>>
    /\ UNCHANGED <<dir_exists, files, now, upc, ustate, ures, fetched,
                   archive, after>>
    /\ UNCHANGED <<sendvars, fixedvars, ffivars, mgrvars>>

-----------------------------------------------------------------------------
\* The foreign-language boundary: src/src/ffi/ios.rs and
\* src/src/ffi/android.rs.

Platforms == {"ios", "android"}

\* The request the host passes: a null pointer or reference, bytes that are
\* not UTF-8 (a C string only), text that is no JSON request (iOS only), a
\* request with a method or header that http rejects, or a sound request.
RequestInputs(p) ==
    IF p = "ios" THEN {"null", "not_utf8", "not_json", "bad_request", "request"}
    ELSE {"null", "bad_request", "request"}

\* What the core does with a sound request: Client::new and send return a
\* response, send returns an error, the response does not convert, or a
\* panic is raised inside (an unwrap, an expect, an index).
CoreOutcomes == {"response", "send_fails", "format_fails", "panic"}
NoCore == "none"

\* What a panic that leaves an extern function does to the host: the
\* process is aborted, or the stack of the host is unwound.
Faults == {"aborted", "unwound"}

\* setup_logger: tracing::subscriber::set_global_default(subscriber)
\* .expect("to be the only logger"). set_global_default returns an error
\* when a global default is already set.
setup_logger(installed) ==
    IF installed THEN [logger |-> TRUE, panic |-> TRUE]
    ELSE [logger |-> TRUE, panic |-> FALSE]

\* android_logger::init_once and log_panics::init(): the logger is set if
\* none is, the error of a second log::set_logger is dropped.
init_once(installed) == [logger |-> TRUE, panic |-> FALSE]

\* cstring_to_str: panic!("cstring is null") on a null pointer,
\* raw.to_str().expect(..) panics on bytes that are not UTF-8.
cstring_to_str(i) == IF i \in {"null", "not_utf8"} THEN "panic" ELSE "str"

\* _call_arti: everything in panic::catch_unwind; an error of serde_json,
\* of try_into, of send or of the conversion of the response is returned
\* with its context, a panic becomes Err("caught panic: ..").
_call_arti(i, o) ==
    IF i = "not_json" \/ i = "bad_request" THEN "error"
    ELSE IF o = "panic" THEN "error"
    ELSE IF o \in {"send_fails", "format_fails"} THEN "error"
    ELSE "response"

\* make_request: env.get_string(..).context(..)? on a null reference, bail!
\* on a method that is not supported, req_builder.body(..).context(..)?.
make_request(i) == IF i \in {"null", "bad_request"} THEN "error" ELSE "request"

\* The host has loaded the library of one platform and has called nothing.
InitFfi ==
    /\ fplat \in Platforms
    /\ logger = FALSE
    /\ linits = 0
    /\ fcalls = 0
    /\ finput = "none"
    /\ fcore = NoCore
    /\ fres = <<>>
    /\ host = "running"

InitFfiFixed == InitFfi /\ fplat = "ios"

\* call_arti(request_json): setup_logger(), then _call_arti(cstring_to_str(
\* &request_json)), its result serialised as ReturnStruct with the response
\* or the error string. The panics of setup_logger and of cstring_to_str are
\* raised outside catch_unwind and leave the extern "C" function.
call_arti ==
    /\ fplat = "ios"
    /\ host = "running"
    /\ fcalls < MaxCalls
    /\ fcalls' = fcalls + 1
    /\ linits' = linits + 1
    /\ logger' = setup_logger(logger).logger
    /\ \E i \in RequestInputs(fplat) :
       \E o \in IF i = "request" THEN CoreOutcomes ELSE {NoCore} :
        /\ finput' = i
        /\ IF setup_logger(logger).panic
           THEN /\ fcore' = NoCore
                /\ fres' = Append(fres, "panic: to be the only logger")
                /\ host' \in Faults
           ELSE IF cstring_to_str(i) = "panic"
           THEN /\ fcore' = NoCore
                /\ fres' = Append(fres, "panic: cstring_to_str")
                /\ host' \in Faults
           ELSE /\ fcore' = o
                /\ fres' = Append(fres, IF _call_arti(i, o) = "panic" THEN "panic: core"
                           ELSE _call_arti(i, o))
                /\ IF _call_arti(i, o) = "panic" THEN host' \in Faults
                   ELSE host' = host
    /\ UNCHANGED fplat
    /\ UNCHANGED <<dirvars, cachevars, sendvars, fixedvars, mgrvars>>

\* Java_org_c4dt_artiwrapper_TorLibApi_initLogger.
initLogger ==
    /\ fplat = "android"
    /\ host = "running"
    /\ fcalls < MaxCalls
    /\ fcalls' = fcalls + 1
    /\ linits' = linits + 1
    /\ logger' = init_once(logger).logger
    /\ fres' = Append(fres, "void")
    /\ host' = IF init_once(logger).panic THEN "aborted" ELSE host
    /\ UNCHANGED <<fplat, finput, fcore>>
    /\ UNCHANGED <<dirvars, cachevars, sendvars, fixedvars, mgrvars>>

\* Java_org_c4dt_artiwrapper_TorLibApi_torRequest: an error of make_request,
\* of client.send or of format_response is thrown as TorLibException and
\* null is returned; nothing catches a panic of Client::new or send.
torRequest ==
    /\ fplat = "android"
    /\ host = "running"
    /\ fcalls < MaxCalls
    /\ fcalls' = fcalls + 1
    /\ \E i \in RequestInputs(fplat) :
       \E o \in IF i = "request" THEN CoreOutcomes ELSE {NoCore} :
        /\ finput' = i
        /\ fcore' = o
        /\ IF make_request(i) = "error"
           THEN fres' = Append(fres, "exception") /\ host' = host
           ELSE IF o = "panic"
           THEN fres' = Append(fres, "panic: core") /\ host' \in Faults
           ELSE IF o \in {"send_fails", "format_fails"}
           THEN fres' = Append(fres, "exception") /\ host' = host
           ELSE fres' = Append(fres, "response") /\ host' = host
    /\ UNCHANGED <<fplat, logger, linits>>
    /\ UNCHANGED <<dirvars, cachevars, sendvars, fixedvars, mgrvars>>

-----------------------------------------------------------------------------
\* The arti DirMgr on side-loaded files: src/src/arti/tor-dirmgr/src/lib.rs,
\* bootstrap.rs and state.rs (the same code is in src/src/arti/dirmgr.rs).

\* The times of the model are multiples of TimeStep, so that the divisions
\* by 4 and by 8 of client_download_range lose nothing, as they lose
\* nothing that counts on durations in nanoseconds.
TimeStep == 32
Times == {k * TimeStep : k \in 0..MaxLifetime}

\* tor_netdoc::doc::netstatus::Lifetime.
Lifetimes ==
    {[valid_after |-> va, fresh_until |-> fu, valid_until |-> vu] :
        va \in {0, TimeStep},
        fu \in Times,
        vu \in Times}
    \ {lt \in [valid_after : Times, fresh_until : Times, valid_until : Times] :
          ~(lt.valid_after <= lt.fresh_until /\ lt.fresh_until <= lt.valid_until)}

\* What consensus.txt, certificate.txt and microdescriptors.txt hold:
\* certificate.txt can hold a sound certificate of a key that has not
\* signed the consensus; microdescriptors.txt can lack a microdescriptor
\* that the consensus lists; enough says whether the microdescriptors of the
\* file make the directory usable.
ConsensusFiles ==
    {"unreadable", "malformed", "untimely", "wrong_authorities",
     "bad_signature", "good"}
CertificateFiles == {"unreadable", "malformed", "untimely", "other_key", "good"}
MicrodescFiles == {"unreadable", "lacking", "all"}
DocDirs ==
    [consensus : ConsensusFiles, certificate : CertificateFiles,
     microdescs : MicrodescFiles, enough : BOOLEAN, lifetime : Lifetimes]

PanicSubtract == "panic: overflow when subtracting durations"
PanicEmptyRange == "panic: cannot sample empty range"
PanicSameState == "panic: Spent 100 iterations in the same state: this is a bug"
PanicNotBootstrapped == "panic: DirMgr was not bootstrapped!"

\* client_download_range: the low bound of the download time and the width
\* of the range; the subtraction of Durations panics below zero.
client_download_range(lt) ==
    LET voting_interval == lt.fresh_until - lt.valid_after
        whole_lifetime == lt.valid_until - lt.valid_after
        lowbound == voting_interval + ((voting_interval * 3) \div 4)
        remainder == whole_lifetime - lowbound
    IN  IF remainder < 0
        THEN [panic |-> PanicSubtract, lowbound |-> 0, uncertainty |-> 0]
        ELSE [panic |-> "none", lowbound |-> lt.valid_after + lowbound,
              uncertainty |-> (remainder * 7) \div 8]

\* rand::thread_rng().gen_range(zero..uncertainty): the offsets it can
\* return, of which the model takes the least, the middle and the greatest.
gen_range(uncertainty) ==
    {0, uncertainty \div 2, uncertainty - 1} \cap (0..(uncertainty - 1))

\* pick_download_time with the offset r of the generator; gen_range panics
\* on an empty range.
pick_download_time(lt, r) ==
    LET range == client_download_range(lt)
    IN  IF range.panic # "none" THEN [panic |-> range.panic, t |-> 0]
        ELSE IF range.uncertainty = 0 THEN [panic |-> PanicEmptyRange, t |-> 0]
        ELSE [panic |-> "none", t |-> range.lowbound + r]

\* The offsets open to the generator for a lifetime (one when it is not
\* asked).
offsets(lt) ==
    IF client_download_range(lt).panic = "none"
       /\ client_download_range(lt).uncertainty > 0
    THEN gen_range(client_download_range(lt).uncertainty)
    ELSE {0}

\* GetConsensusState::new: no next state yet. The fields of the later
\* states are in the same record.
GetConsensusState ==
    [kind |-> "GetConsensusState", next |-> FALSE, missing_certs |-> 0,
     certs |-> 0, missing |-> 0, partial |-> FALSE, reset_time |-> 0]

\* DirState::can_advance: GetConsensusState has a next state,
\* GetCertsState has the certificate of the signing key
\* (unvalidated.key_is_correct), GetMicrodescsState never.
can_advance(st) ==
    IF st.kind = "GetConsensusState" THEN st.next
    ELSE IF st.kind = "GetCertsState" THEN st.certs > 0 /\ st.missing_certs = 0
    ELSE FALSE

\* DirState::missing_docs: the number of documents the state misses.
missing_docs(st) ==
    IF st.kind = "GetConsensusState" THEN (IF can_advance(st) THEN 0 ELSE 1)
    ELSE IF st.kind = "GetCertsState" THEN st.missing_certs
    ELSE st.missing

\* GetMicrodescsState::consider_upgrade: a partial directory that is
\* sufficient gets its download time and replaces the directory of the
\* DirMgr.
consider_upgrade(st, d, nd, r) ==
    IF st.partial /\ d.enough
    THEN IF pick_download_time(d.lifetime, r).panic # "none"
         THEN [err |-> pick_download_time(d.lifetime, r).panic,
               st |-> [st EXCEPT !.partial = FALSE], netdir |-> nd]
         ELSE [err |-> Ok,
               st |-> [st EXCEPT !.partial = FALSE,
                                 !.reset_time = pick_download_time(d.lifetime, r).t],
               netdir |-> TRUE]
    ELSE [err |-> Ok, st |-> st, netdir |-> nd]

\* DirState::add_from_cache of the three states: the error or panic, whether
\* the state says it has changed, the state, and DirMgr.netdir.
add_from_cache(st, d, nd, r) ==
    LET out(e, ch, s2, n2) == [err |-> e, changed |-> ch, st |-> s2, netdir |-> n2]
    IN  IF st.kind = "GetConsensusState"
        THEN IF d.consensus = "unreadable"
             THEN out("Failed to read the consensus.", FALSE, st, nd)
             ELSE IF d.consensus = "malformed"
             THEN out("Failed to parse consensus", FALSE, st, nd)
             ELSE IF d.consensus = "untimely"
             THEN out(Ok, FALSE, st, nd)
             ELSE IF d.consensus = "wrong_authorities"
             THEN out(ErrUnrecognizedAuthorities, FALSE, st, nd)
             ELSE out(Ok, TRUE, [st EXCEPT !.next = TRUE, !.missing_certs = 1], nd)
        ELSE IF st.kind = "GetCertsState"
        THEN IF d.certificate = "unreadable"
             THEN out("Failed to read the certificate.", FALSE, st, nd)
             ELSE IF d.certificate = "malformed"
             THEN out("Failed to parse certificate", FALSE, st, nd)
             ELSE IF d.certificate = "untimely"
             THEN out(Ok, FALSE, st, nd)
             ELSE IF d.certificate = "other_key"
             THEN out(Ok, TRUE, [st EXCEPT !.certs = @ + 1], nd)
             ELSE out(Ok, TRUE,
                      [st EXCEPT !.certs = @ + 1, !.missing_certs = 0], nd)
        ELSE IF d.microdescs = "unreadable"
             THEN out("Failed to read microdescriptors.", FALSE, st, nd)
             ELSE LET s2 == [st EXCEPT !.missing =
                                IF d.microdescs = "all" THEN 0 ELSE 1]
                      up == consider_upgrade(s2, d, nd, r)
                  IN  out(up.err, TRUE, up.st, up.netdir)

\* bootstrap::load_once: nothing is read for a state that misses nothing.
load_once(st, d, nd, r) ==
    IF missing_docs(st) = 0
    THEN [err |-> Ok, changed |-> FALSE, st |-> st, netdir |-> nd]
    ELSE add_from_cache(st, d, nd, r)

\* DirState::advance: GetConsensusState gives its next state; GetCertsState
\* checks the signature of the consensus and makes GetMicrodescsState::new,
\* a partial directory that misses every microdescriptor, two in the model.
advance(st, d) ==
    IF st.kind = "GetConsensusState"
    THEN [err |-> Ok, st |-> [st EXCEPT !.kind = "GetCertsState"]]
    ELSE IF st.kind = "GetCertsState"
    THEN IF d.consensus = "bad_signature"
         THEN [err |-> "Failed to validate consensus signature", st |-> st]
         ELSE [err |-> Ok,
               st |-> [st EXCEPT !.kind = "GetMicrodescsState",
                                 !.missing = 2, !.partial = TRUE,
                                 !.reset_time = d.lifetime.valid_until]]
    ELSE [err |-> Ok, st |-> st]

\* No DirMgr yet; the files are what the host has side-loaded.
InitMgr(dirs) ==
    /\ docdir \in dirs
    /\ dstate = GetConsensusState
    /\ safety_counter = 0
    /\ mpc = "idle"
    /\ mres = "pending"
    /\ mnetdir = FALSE

GoodDocDir ==
    [consensus |-> "good", certificate |-> "good", microdescs |-> "all",
     enough |-> TRUE,
     lifetime |-> [valid_after |-> 0, fresh_until |-> TimeStep,
                   valid_until |-> 3 * TimeStep]]

InitMgrFixed == InitMgr({GoodDocDir})

\* bootstrap_from_config: DirMgr::from_config, then load_directory up to
\* the loop of bootstrap::load with a new GetConsensusState.
bootstrap_from_config ==
    /\ mpc = "idle"
    /\ mpc' = "load"
    /\ dstate' = GetConsensusState
    /\ safety_counter' = 0
    /\ mnetdir' = FALSE
    /\ UNCHANGED <<docdir, mres>>
    /\ UNCHANGED <<dirvars, cachevars, sendvars, fixedvars, ffivars>>

\* One turn of the loop of bootstrap::load: load_once, then advance or
\* break or count. On break load_directory returns whether there is a
\* directory and bootstrap_from_config returns the DirMgr whatever that
\* says; an error returns from all of them.
load ==
    /\ mpc = "load"
    /\ \E r \in offsets(docdir.lifetime) :
        LET once == load_once(dstate, docdir, mnetdir, r)
            adv == advance(once.st, docdir)
            done(pc, res, st, n, c) ==
                /\ mpc' = pc /\ mres' = res /\ dstate' = st
                /\ mnetdir' = n /\ safety_counter' = c
        IN  IF once.err # Ok
            THEN done("returned", once.err, once.st, once.netdir, safety_counter)
            ELSE IF can_advance(once.st)
            THEN IF adv.err # Ok
                 THEN done("returned", adv.err, adv.st, once.netdir, safety_counter)
                 ELSE done("load", mres, adv.st, once.netdir, 0)
            ELSE IF ~once.changed
            THEN done("returned", "Ok(dirmgr)", once.st, once.netdir,
                      safety_counter)
            ELSE IF safety_counter + 1 = SAFETY_LIMIT
            THEN done("returned", PanicSameState, once.st, once.netdir,
                      safety_counter + 1)
            ELSE done("load", mres, once.st, once.netdir, safety_counter + 1)
    /\ UNCHANGED docdir
    /\ UNCHANGED <<dirvars, cachevars, sendvars, fixedvars, ffivars>>

\* DirMgr::netdir on the handle, as load_or_bootstrap_once calls it:
\* self.opt_netdir().expect("DirMgr was not bootstrapped!").
netdir_of_handle ==
    /\ mpc = "returned"
    /\ mres = "Ok(dirmgr)"
    /\ mpc' = "netdir"
    /\ mres' = IF mnetdir THEN "Ok(netdir)" ELSE PanicNotBootstrapped
    /\ UNCHANGED <<docdir, dstate, safety_counter, mnetdir>>
    /\ UNCHANGED <<dirvars, cachevars, sendvars, fixedvars, ffivars>>

-----------------------------------------------------------------------------
\* Specifications.

\* One provider whose task loads again and again while the files change,
\* with subscribers and readers.
Init ==
    /\ InitProvider(ProviderCaches)
    /\ dimpl = "flatfiledirmgr"
    /\ InitCacheDirFixed
    /\ InitSendFixed
    /\ InitFfiFixed
    /\ InitMgrFixed

Next ==
    \/ LoadStart("a")
    \/ SendNewConsensus("a")
    \/ SendNewDescriptors("a")
    \/ Return("a")
    \/ \E s \in Subscribers : Subscribe(s)
    \/ \E s \in Subscribers : Recv(s)
    \/ \E s \in Subscribers : Unsubscribe(s)
    \/ ReadNetdir
    \/ ReplaceCache(ProviderCaches)

Spec == Init /\ [][Next]_vars

\* One load of any cache of the model by one task, one subscriber.
InitLoad ==
    /\ InitProvider(CacheContents)
    /\ dimpl \in DirMgrImpls
    /\ InitCacheDirFixed
    /\ InitSendFixed
    /\ InitFfiFixed
    /\ InitMgrFixed

NextLoad ==
    \/ LoadStart("a")
    \/ SendNewConsensus("a")
    \/ SendNewDescriptors("a")
    \/ Subscribe("s")
    \/ Recv("s")
    \/ ReadNetdir

SpecLoad == InitLoad /\ [][NextLoad]_vars

\* The same load on a runtime that keeps polling the task of the load: a
\* send that the channel can take is taken. Nothing makes a subscriber read.
SpecLoadFair ==
    /\ SpecLoad
    /\ WF_vars(SendNewConsensus("a"))
    /\ WF_vars(SendNewDescriptors("a"))

\* Two tasks that call load_directory on the same provider at the same time,
\* one subscriber that reads.
InitConcurrent ==
    /\ InitProvider(ProviderCaches)
    /\ dimpl = "flatfiledirmgr"
    /\ InitCacheDirFixed
    /\ InitSendFixed
    /\ InitFfiFixed
    /\ InitMgrFixed

NextConcurrent ==
    \/ \E l \in Loaders : LoadStart(l)
    \/ \E l \in Loaders : SendNewConsensus(l)
    \/ \E l \in Loaders : SendNewDescriptors(l)
    \/ Subscribe("s")
    \/ Recv("s")

SpecConcurrent == InitConcurrent /\ [][NextConcurrent]_vars

\* One Client::new on any cache directory of the model: update_cache, then
\* a classification of what it left.
InitCache ==
    /\ InitProvider({CacheRecord({}, MaxRelays, <<>>, {}, TRUE, TRUE)})
    /\ dimpl = "flatfiledirmgr"
    /\ InitCacheDir
    /\ InitSendFixed
    /\ InitFfiFixed
    /\ InitMgrFixed

NextCache ==
    \/ Classify
    \/ Dispatch
    \/ ChurnFetch
    \/ ChurnCreate
    \/ ChurnWrite
    \/ ArchiveFetch
    \/ ArchiveUnpack
    \/ ClassifyAfter
    \/ UpdateCacheReturn
    \/ TorConfig
    \/ Bootstrap

SpecCache == InitCache /\ [][NextCache]_vars

\* Two calls of get_cache_state on one cache directory that nothing writes
\* to, as the host makes them with two Client::new that need no update.
NextClassify ==
    \/ Classify
    \/ ClassifyAgain

SpecClassify == InitCache /\ [][NextClassify]_vars

\* A client that was created on a fresh cache and is sent requests, one
\* after the other, by one of the send functions.
InitSending ==
    /\ InitProvider({CacheRecord({}, MaxRelays, <<>>, {}, TRUE, TRUE)})
    /\ dimpl = "flatfiledirmgr"
    /\ InitCacheDirFixed
    /\ InitSend
    /\ InitFfiFixed
    /\ InitMgrFixed

NextSend ==
    \/ SendCall
    \/ Connect
    \/ TlsConnect
    \/ WriteRequest
    \/ Flush
    \/ ReadResponse
    \/ SendReturn

SpecSend == InitSending /\ [][NextSend]_vars

\* A host that calls the exported functions of the library of its platform,
\* one call after the other.
InitHost ==
    /\ InitProvider({CacheRecord({}, MaxRelays, <<>>, {}, TRUE, TRUE)})
    /\ dimpl = "flatfiledirmgr"
    /\ InitCacheDirFixed
    /\ InitSendFixed
    /\ InitFfi
    /\ InitMgrFixed

NextHost ==
    \/ call_arti
    \/ initLogger
    \/ torRequest

SpecHost == InitHost /\ [][NextHost]_vars

\* One load_or_bootstrap_once of the arti DirMgr on any side-loaded files
\* of the model.
InitBootstrap ==
    /\ InitProvider({CacheRecord({}, MaxRelays, <<>>, {}, TRUE, TRUE)})
    /\ dimpl = "flatfiledirmgr"
    /\ InitCacheDirFixed
    /\ InitSendFixed
    /\ InitFfiFixed
    /\ InitMgr(DocDirs)

NextBootstrap ==
    \/ bootstrap_from_config
    \/ load
    \/ netdir_of_handle

SpecBootstrap == InitBootstrap /\ [][NextBootstrap]_vars

-----------------------------------------------------------------------------
\* Properties of the directory provider.

\* The churn list that a load of cache c parses, and its threshold.
parsed_churn(c) == parse_churn(churn_text(c)).churn
threshold_of(c) == c.n_relays \div CHURN_FRACTION

\* The effective churn subsets a load of cache c can choose.
possible_churn_sets(c) ==
    {churn_set(parsed_churn(c), threshold_of(c), p) : p \in rng_choices(c)}

\* C1: every relay advertised by the published directory has the
\* microdescriptor its consensus row lists, taken from microdescriptors.txt,
\* and its identity is not in the effective churn subset of the load that
\* published the directory.
C1_AdvertisedRelays ==
    \A d \in netdir :
        /\ d.churn_set \in possible_churn_sets(d.src)
        /\ \A r \in advertised(d) :
            /\ d.md[r] = {md_digest(r)}
            /\ md_digest(r) \in load_microdesc(d.src).udesc
            /\ r \notin d.churn_set

\* A published directory from which a churned relay was removed and in
\* which another relay has no microdescriptor.
C1_Witness ==
    \E d \in netdir :
        /\ d.churn_set \cap (1..d.src.n_relays) # {}
        /\ advertised(d) # {}
        /\ d.relays \ advertised(d) # {}

\* What C2 says of an assembled directory d, with size the number of
\* entries |churn| of the churn list of its load.
churn_rule(d, size) ==
    LET churn == parsed_churn(d.src)
        T == threshold_of(d.src)
    IN  /\ size <= T => d.churn_set = Range(churn) /\ ~d.sampled
        /\ size > T => d.churn_set \subseteq Range(churn) /\ d.sampled
        /\ Cardinality(d.churn_set) = Min(size, T)

\* C2: with T = floor(n_relays / 6), a load whose churn list has at most T
\* entries takes the whole list and does not sample, a load whose list is
\* longer samples a subset of it, and the effective churn subset always has
\* min(|churn|, T) members (|churn| read as the number of entries of the
\* list, or as the number of distinct identities in it).
C2_ChurnSubsetSize ==
    \A k \in DOMAIN calls : \A d \in calls[k].dir :
        \/ churn_rule(d, Len(parsed_churn(d.src)))
        \/ churn_rule(d, Cardinality(Range(parsed_churn(d.src))))

\* The same for the loads whose churn list repeats no identity.
C2_ChurnSubsetSizeNoRepeats ==
    \A k \in DOMAIN calls : \A d \in calls[k].dir :
        Cardinality(Range(parsed_churn(d.src))) = Len(parsed_churn(d.src))
            => churn_rule(d, Len(parsed_churn(d.src)))

\* A directory is whole: it is what one load assembles from one cache.
whole(d) ==
    \E p \in rng_choices(d.src) : load_directory(d.src, p, d.load).dir = {d}

\* C3: the directory in the shared slot, and every snapshot a reader holds,
\* is absent or a whole directory that passed unwrap_if_sufficient and the
\* circuit manager's netdir_is_sufficient.
C3_OnlySufficientPublished ==
    \A d \in netdir \cup observed :
        /\ d.src.enough_paths
        /\ d.src.circmgr_ok
        /\ whole(d)

\* A reader holds the directory of one load while the slot holds the
\* directory of a later load.
C3_Witness ==
    /\ observed # {}
    /\ netdir # {}
    /\ \E d \in netdir : \E o \in observed : o.load < d.load

\* C4: a load that returns Ok(true) has emitted exactly NewConsensus then
\* NewDescriptors, and the events of a load are at every moment a prefix of
\* that pair.
C4_EventPair ==
    \A k \in DOMAIN calls :
        /\ calls[k].res = "true" =>
               events_of(k, log) = <<"NewConsensus", "NewDescriptors">>
        /\ events_of(k, log) \in
               {<<>>, <<"NewConsensus">>, <<"NewConsensus", "NewDescriptors">>}

\* A load returned Ok(true) and a subscriber has read its two events.
C4_Witness ==
    \E k \in DOMAIN calls : \E s \in receivers :
        /\ calls[k].res = "true"
        /\ Len(stream(s)) >= 2
        /\ SubSeq(stream(s), Len(stream(s)) - 1, Len(stream(s))) =
               <<[ev |-> "NewConsensus", load |-> k],
                 [ev |-> "NewDescriptors", load |-> k]>>

\* The errors of the verification steps of load_directory.
VerificationErrors ==
    {ErrRequiredFiles, ErrUnrecognizedAuthorities, ErrParseConsensus,
     ErrUntimely, ErrBadHex, ErrInvalidIdentity, ErrParseCertificate,
     ErrCertificateSignature, ErrConsensusSignature}

\* C5: a load that fails at a verification step leaves the shared directory
\* and the event channel as they were, and no event of it is ever emitted.
C5_FailedLoadChangesNothing ==
    /\ [][\A l \in Loaders :
            (/\ lpc[l] = "idle"
             /\ lpc'[l] = "done"
             /\ calls'[Len(calls')].res \in VerificationErrors)
            => (netdir' = netdir /\ log' = log)]_vars
    /\ [](\A k \in DOMAIN calls :
            calls[k].res \in VerificationErrors => events_of(k, log) = <<>>)

\* A load failed on the signature of the consensus while an earlier
\* directory stays published.
C5_Witness ==
    \E k \in DOMAIN calls :
        /\ calls[k].res = ErrConsensusSignature
        /\ \E d \in netdir : d.load < k
        /\ log # <<>>

-----------------------------------------------------------------------------
\* Properties of the cache-freshness controller.

\* The directory exists and holds the five files.
all_present == dir_exists /\ \A f \in FILES : files[f].present

mc == get_offset_date_time(files, MICRODESCRIPTORS_FILENAME)
ch == get_offset_date_time(files, CHURN_FILENAME)

C7_IsoWeekOfMicrodescriptors ==
    (upc = "classified" /\ all_present) =>
        \/ ustate = "All" <=> iso_week(mc) # iso_week(now)
        \/ ustate = "All" <=> iso_week(mc).week # iso_week(now).week

\* C8: with all files present and microdescriptors.txt of the current ISO
\* week, the classification is None exactly when churn.txt is of the same
\* ISO week and weekday as the current time, and Churn otherwise (ISO week
\* read as year and week, or as the week number).
C8_ChurnSameDay ==
    (upc = "classified" /\ all_present) =>
        \/ iso_week(mc) = iso_week(now) =>
            /\ ustate \in {"None", "Churn"}
            /\ ustate = "None" <=>
                 (iso_week(ch) = iso_week(now) /\ weekday(ch) = weekday(now))
        \/ iso_week(mc).week = iso_week(now).week =>
            /\ ustate \in {"None", "Churn"}
            /\ ustate = "None" <=>
                 (/\ iso_week(ch).week = iso_week(now).week
                  /\ weekday(ch) = weekday(now))

\* C9: a refresh of a cache classified All fetches the archive first and
\* the churn file afterwards, and leaves the downloaded churn file, written
\* at the time of the refresh, as churn.txt.
C9_ArchiveThenChurn ==
    (upc \in {"done", "checked"} /\ ustate = "All" /\ ures = Ok) =>
        /\ fetched = <<"archive", "churn">>
        /\ files[CHURN_FILENAME].origin = "churn"
        /\ files[CHURN_FILENAME].mtime = now

\* The archive that update_cache downloaded is of the current week, by the
\* ISO week and by the week of the year.
archive_of_this_week ==
    /\ iso_week(archive) = iso_week(now)
    /\ monday_based_week(archive) = monday_based_week(now)

\* C10: a classification right after a successful update_cache is None
\* (told of the refreshes whose archive, if one was fetched, is of the
\* current week).
C10_FreshAfterUpdate ==
    (/\ upc = "checked"
     /\ ures = Ok
     /\ ustate = "All" => archive_of_this_week)
        => after = "None"

\* The same for the refreshes that did not have to fetch the archive.
C10_FreshAfterChurnUpdate ==
    (upc = "checked" /\ ures = Ok /\ ustate # "All") => after = "None"

-----------------------------------------------------------------------------
\* Properties of Client::new_with_url and of the refresh.

\* update_cache has returned an error.
refresh_failed == ures \notin {Ok, "pending"}

\* C11: when a download or unpack step of the refresh fails, new_with_url
\* returns that error, no TorClient is built and no directory load is ever
\* started.
C11_FailedRefreshNoClient ==
    refresh_failed =>
        /\ client.pc \in {"update_cache", "returned"}
        /\ client.pc = "returned" => client.res = ures
        /\ ~client.tor_client
        /\ calls = <<>>
        /\ netdir = {}

\* new_with_url has returned the error of an unpack that failed after the
\* churn file was downloaded.
C11_Witness ==
    /\ client.pc = "returned"
    /\ client.res = "Err(io)"
    /\ fetched = <<"churn", "archive">>
    /\ ustate = "All"
    /\ calls = <<>>

\* The files that only the archive brings.
ARCHIVE_ONLY == FILES \ {CHURN_FILENAME}

\* C12: at every point of a refresh the cache directory holds the complete
\* previous set of files or the complete set of the new archive, never some
\* files of the new archive next to files that are not of it.
C12_ArchiveInstalledWhole ==
    \/ \A f \in ARCHIVE_ONLY : files[f].origin = "archive"
    \/ \A f \in ARCHIVE_ONLY : files[f].origin # "archive"

\* C13: at every point during and after a churn download, churn.txt holds
\* its complete previous content or the complete downloaded content.
C13_ChurnWrittenWhole ==
    files[CHURN_FILENAME].origin \notin {"truncated", "partial"}

\* update_cache has matched on state st.
matched(st) == upc # "idle" /\ ustate = st

\* C14: a refresh of a cache classified Churn requests only the churn URL
\* and changes no file but churn.txt.
C14_ChurnStaleTouchesOnlyChurn ==
    /\ [][matched("Churn") =>
            /\ dir_exists' = dir_exists
            /\ \A f \in ARCHIVE_ONLY : files'[f] = files[f]]_vars
    /\ [](matched("Churn") =>
            /\ \A i \in DOMAIN fetched : fetched[i] = "churn"
            /\ (upc \in {"done", "checked"} /\ ures = Ok) =>
                    fetched = <<"churn">>)

\* A cache classified Churn has been refreshed: the churn file is the
\* downloaded one, the other files are the old ones.
C14_Witness ==
    /\ matched("Churn")
    /\ upc = "done"
    /\ ures = Ok
    /\ files[CHURN_FILENAME] = file(now, "churn")
    /\ \A f \in ARCHIVE_ONLY : files[f].origin = "old"

\* C15: a refresh of a cache classified None requests nothing and changes
\* no file.
C15_FreshIsNoOp ==
    /\ [][matched("None") =>
            /\ dir_exists' = dir_exists
            /\ files' = files
            /\ fetched' = fetched]_vars
    /\ [](matched("None") =>
            /\ fetched = <<>>
            /\ upc \in {"done", "checked"} => ures = Ok)

\* update_cache has returned on a cache classified None.
C15_Witness ==
    /\ matched("None")
    /\ upc = "done"
    /\ ures = Ok
    /\ fetched = <<>>
    /\ \A f \in FILES : files[f].origin = "old"

-----------------------------------------------------------------------------
\* Properties of the send.

\* The failures of the stream-connect, write and read layer.
StreamErrors == {ErrTorConnect, ErrWriteRequest, ErrFlush, ErrReadResponse}

\* The number of attempts the running call has started.
attempts == IF spc \in {"idle"} \/ sres = ErrUnsupportedVersion
            THEN 0 ELSE retry + 1

\* C16: a send makes at most 5 attempts; it returns the response of the
\* first attempt that succeeds, never returns a stream-level failure (it
\* retries it) and returns NoResponse only after the fifth failed attempt.
C16_FiveAttempts ==
    /\ attempts <= 5
    /\ sres = Ok => spc = "done"
    /\ spc = "done" =>
        /\ sres \notin StreamErrors \cup {Panic}
        /\ sres = ErrNoResponse => attempts = 5

\* The same, told of send_request alone.
C16_FiveAttemptsOfSendRequest ==
    simpl = "send_request" =>
        /\ attempts <= 5
        /\ spc = "done" =>
            /\ sres \notin StreamErrors \cup {Panic}
            /\ sres = ErrNoResponse => attempts = 5

\* C17: an attempt whose TLS handshake has failed is the last one of its
\* call, and the call returns the handshake error.
C17_HandshakeNotRetried ==
    sfail = ErrTlsConnect => spc = "done" /\ sres = ErrTlsConnect

\* C18: during one call the request bytes are written at most once, and the
\* stream of an attempt was opened by the call that uses it.
C18_OneRequestPerCall ==
    /\ writes <= 1
    /\ sstream # 0 => sstream = scall

\* The same, told of Client::send alone.
C18_OneRequestPerCallOfClientSend ==
    simpl = "Client::send" => C18_OneRequestPerCall

\* C19: a Client::send of a request whose version is not HTTP/1.0 returns
\* the unsupported-version error with no stream opened, no TLS handshake
\* started and no byte written.
C19_VersionCheckedFirst ==
    (simpl = "Client::send" /\ spc # "idle" /\ sver # "HTTP/1.0") =>
        /\ spc = "done"
        /\ sres = ErrUnsupportedVersion
        /\ opened = 0
        /\ writes = 0
        /\ sstream = 0
        /\ sfail = "none"

\* The second send of a client is of an HTTP/1.1 request and has returned.
C19_Witness ==
    /\ simpl = "Client::send"
    /\ scall = 2
    /\ sver = "HTTP/1.1"
    /\ spc = "done"
    /\ sres = ErrUnsupportedVersion
    /\ opened = 0

-----------------------------------------------------------------------------
\* Properties of the creation of a client on a damaged cache.

ErrRequiredFilesOfClient == "CacheCorruption(required file(s) missing in cache)"

\* C20: new_with_url on a cache directory from which one of the five files
\* was deleted returns CacheCorruption("required file(s) missing in cache"),
\* and the check of the directory that the classification makes gives that
\* message for each of the files.
C20_DeletedFileFailsCreation ==
    (client.exists /\ Cardinality(client.missing) = 1) =>
        /\ client.pc = "returned" => client.res = ErrRequiredFilesOfClient
        /\ upc = "idle" =>
            cache_check_directory(dir_exists, files) = ErrRequiredFilesOfClient

\* The weaker statement that such a creation returns some error.
C20_DeletedFileNoClient ==
    (client.exists /\ Cardinality(client.missing) = 1) => ~client.tor_client

ErrNoCacheDirectory == "CacheCorruption(cache-directory doesn't exist)"

\* C21: new_with_url on a cache directory that does not exist returns
\* CacheCorruption("cache-directory doesn't exist"), builds no client,
\* creates no directory and installs no file.
C21_MissingDirectoryFailsCreation ==
    ~client.exists =>
        /\ ~client.tor_client
        /\ client.pc = "returned" => client.res = ErrNoCacheDirectory
        /\ ~dir_exists
        /\ \A f \in FILES : ~files[f].present

\* The part of it that is about the directory and the client only.
C21_MissingDirectoryNothingInstalled ==
    ~client.exists =>
        /\ ~client.tor_client
        /\ client.pc = "returned" => client.res # Ok
        /\ ~dir_exists
        /\ \A f \in FILES : ~files[f].present

-----------------------------------------------------------------------------
\* Properties of loads of damaged or insufficient caches.

\* The errors that are a CacheCorruption.
CacheCorruptions ==
    {ErrRequiredFiles, ErrParseConsensus, ErrInvalidIdentity,
     ErrParseCertificate, ErrConsensusSignature}

\* C22: a load of a cache whose only defect is that churn.txt is missing
\* returns a CacheCorruption and neither assembles nor publishes a directory.
C22_MissingChurnFailsLoad ==
    (cache.defects = {"churn_missing"} /\ calls # <<>>) =>
        /\ calls[1].res \in CacheCorruptions
        /\ calls[1].dir = {}
        /\ netdir = {}

\* The same, told of the provider of src/src/flatfiledirmgr.rs alone.
C22_MissingChurnFailsLoadOfFlatfiledirmgr ==
    dimpl = "flatfiledirmgr" => C22_MissingChurnFailsLoad

\* C23: a load whose assembled directory is insufficient, with no directory
\* published, returns DirectoryNotPresent to its caller.
C23_InsufficientIsDirectoryNotPresent ==
    \A k \in DOMAIN calls :
        (calls[k].dir # {} /\ ~calls[k].replaced /\ netdir = {}) =>
            calls[k].res = ErrDirectoryNotPresent

\* C24: publishing never waits for a subscriber: a load that has published
\* its directory and is sending its events eventually returns, whether or
\* not the subscribers read.
C24_PublishingLoadReturns ==
    (lpc["a"] \in {"send_consensus", "send_descriptors"}) ~> (lpc["a"] = "done")

\* C24 (what the channel does): a load waits in a send only while a live
\* subscriber has left EVENT_CAPACITY events unread.
C24_WaitsOnlyOnFullBuffer ==
    (lpc["a"] = "send_descriptors" /\ ~ENABLED SendNewDescriptors("a"))
        => (receivers # {} /\ buffered >= EVENT_CAPACITY)

\* C25: the two events of a load are contiguous: in the stream of every
\* subscriber a NewConsensus is followed, if by anything, by an event of
\* the same load.
C25_EventsContiguous ==
    \A s \in Subscribers :
        \A i \in 1..(Len(stream(s)) - 1) :
            stream(s)[i].ev = first_event
                => stream(s)[i + 1].load = stream(s)[i].load

\* C25 (what does hold): each load by itself sends NewConsensus before
\* NewDescriptors, also when another load runs.
C25_OrderWithinLoad ==
    \A k \in DOMAIN calls :
        events_of(k, log) \in {<<>>, <<first_event>>, <<first_event, second_event>>}

\* C26: the bootstrap status reports "not ready" until a load has assembled
\* and published a directory, and "ready" from then on.
C26_ReadyAfterFirstAssembly ==
    /\ (\A k \in DOMAIN calls : ~calls[k].replaced)
            => bootstrap_rx_events = "not ready"
    /\ (\E k \in DOMAIN calls : calls[k].replaced)
            => bootstrap_rx_events = "ready"

\* C26 (what the code does): the sender of the watch channel is dropped in
\* from_config, so the status is the initial one for ever.
C26_StatusNeverChanges ==
    [][bootstrap_rx_events' = bootstrap_rx_events]_vars
        /\ [](bootstrap_rx_events = DEFAULT_BOOTSTRAP_STATUS)

\* The lines of a churn text without the repetitions: each line is kept
\* where it first stands.
RECURSIVE without_duplicates(_)
without_duplicates(text) ==
    IF text = <<>> THEN <<>>
    ELSE LET front == without_duplicates(SubSeq(text, 1, Len(text) - 1))
             last == text[Len(text)]
         IN  IF last \in Range(front) THEN front ELSE Append(front, last)

\* C27: repeated identities of the churn list count once: a load decides
\* to sample, and removes as many relays, as a load of the same cache whose
\* churn list has the repetitions removed can.
C27_DuplicatesCountOnce ==
    \A k \in DOMAIN calls : \A d \in calls[k].dir :
        LET c == [d.src EXCEPT !.churn = without_duplicates(@)]
        IN  \E p \in rng_choices(c) :
                /\ load_consensus(c, p).sampled = d.sampled
                /\ Cardinality(load_consensus(c, p).relays) = Cardinality(d.relays)

\* C27 (what does hold): the relays removed are those of the sample, so a
\* repeated identity is removed once.
C27_RemovedAreTheChurnSet ==
    \A k \in DOMAIN calls : \A d \in calls[k].dir :
        d.relays = (1..d.src.n_relays) \ d.churn_set

\* The churn text of the cache has a line that is not the hex of 20 bytes.
malformed_churn(c) ==
    \E i \in DOMAIN churn_text(c) : churn_text(c)[i].t \in {"badhex", "badlen"}

\* What C28 says parse_churn returns for a text.
parse_churn_rule(text, failure) ==
    LET lines == non_empty_lines(text)
    IN  IF \A i \in DOMAIN lines : lines[i].t = "id"
        THEN /\ parse_churn(text).err = Ok
             /\ parse_churn(text).churn = [i \in DOMAIN lines |-> lines[i].id]
        ELSE /\ parse_churn(text).err \in failure
             /\ parse_churn(text).churn = <<>>

\* C28: parse_churn skips the empty lines and returns the identities of
\* the other lines in order; a line that is not hex, or not of 20 bytes,
\* makes it fail with CacheCorruption("invalid RSA identity"), and the load
\* that called it fails with that error and assembles nothing.
C28_MalformedLineIsInvalidIdentity ==
    /\ calls # <<>> => parse_churn_rule(churn_text(cache), {ErrInvalidIdentity})
    /\ (calls # <<>> /\ cache.defects = {} /\ malformed_churn(cache))
            => calls[1].res = ErrInvalidIdentity /\ calls[1].dir = {}

\* C28 (what does hold): the same with the two errors of the code, the
\* one of the line that is not hex being BadHexInCache.
C28_MalformedLineFails ==
    /\ calls # <<>> => parse_churn_rule(churn_text(cache), {ErrBadHex, ErrInvalidIdentity})
    /\ (calls # <<>> /\ cache.defects = {} /\ malformed_churn(cache))
            => calls[1].res \in {ErrBadHex, ErrInvalidIdentity} /\ calls[1].dir = {}

-----------------------------------------------------------------------------
\* Properties of the reading and the parsing of the response.

\* What a send that goes on after read_to_end returns for the bytes r.
returned_for(impl, r) ==
    IF impl = "Client::send" THEN raw_to_response(r)
    ELSE [err |-> Ok, resp |-> from_utf8_lossy(r)]

\* C29: a read of the response that ends with UnexpectedEof is a graceful
\* close: the send returns what the bytes received so far parse to; a read
\* that ends with another error gives no response.
C29_UnexpectedEofIsGracefulClose ==
    /\ raw.end = "UnexpectedEof" =>
            /\ spc = "done"
            /\ sres = returned_for(simpl, raw).err
            /\ resp = returned_for(simpl, raw).resp
    /\ raw.end = "error" => sres # Ok /\ resp = NoResponse

\* C29 for Client::send alone.
C29_UnexpectedEofIsGracefulCloseOfClientSend ==
    simpl = "Client::send" => C29_UnexpectedEofIsGracefulClose

\* C30: a response with more than MAX_HEADERS header lines is parsed
\* without error: Client::send returns a response with its status and its
\* body, holding at most MAX_HEADERS headers.
C30_ManyHeadersParsed ==
    (/\ simpl = "Client::send"
     /\ spc = "done"
     /\ raw.kind = "complete"
     /\ raw.headers > MAX_HEADERS
     /\ read_accepted(simpl, raw.end))
        => /\ sres = Ok
           /\ resp.status = raw.status
           /\ resp.body = raw.body
           /\ resp.headers <= MAX_HEADERS

\* C30 (what does hold): a complete response of at most MAX_HEADERS header
\* lines is returned with its status, its body and every header.
C30_UpToMaxHeadersParsed ==
    (/\ simpl = "Client::send"
     /\ spc = "done"
     /\ raw.kind = "complete"
     /\ raw.headers <= MAX_HEADERS
     /\ read_accepted(simpl, raw.end))
        => /\ sres = Ok
           /\ resp.status = raw.status
           /\ resp.body = raw.body
           /\ resp.headers = raw.headers

-----------------------------------------------------------------------------
\* Properties of the classification of the cache.

\* C33: the classification is a function of the presence and the mtimes of
\* the files: a second call on a directory whose files are the same returns
\* what the first call returned.
C33_SameFilesSameState ==
    upc = "checked" => after = ustate

\* C33 (what does hold): the second call returns the same when it is made
\* on the same UTC day, OffsetDateTime::now_utc() being the other input.
C33_SameFilesSameDaySameState ==
    [][(upc = "classified" /\ upc' = "checked" /\ now' = now /\ files' = files
            /\ dir_exists' = dir_exists)
        => after' = ustate]_vars

\* C38: a cache classified None has a microdescriptors.txt and a churn.txt
\* written in the 7 days up to now, the churn.txt on the current day.
C38_FreshIsRecent ==
    (upc = "classified" /\ ustate = "None") =>
        /\ all_present
        /\ now - mc \in 0..6
        /\ now - ch \in 0..6
        /\ ch = now

\* C38 (what does hold): the same for the files written in the current
\* year, the week of the year and the weekday being all that is compared.
C38_FreshIsRecentInTheYear ==
    (/\ upc = "classified"
     /\ ustate = "None"
     /\ all_present => year_of(mc) = year_of(now) /\ year_of(ch) = year_of(now))
        => /\ all_present
           /\ now - mc \in 0..6
           /\ ch = now

-----------------------------------------------------------------------------
\* Properties of a sequence of loads.

\* C39: a load returns true and sends its events only if it replaced the
\* published directory itself; a load whose directory was insufficient
\* returns false and sends nothing, whatever earlier loads published.
C39_EventsOnlyOnReplace ==
    \A k \in DOMAIN calls :
        /\ (calls[k].res = "true" \/ events_of(k, log) # <<>>)
                => calls[k].replaced
        /\ (calls[k].dir # {} /\ ~calls[k].replaced /\ calls[k].res # "pending")
                => calls[k].res = "false"

\* C39 (what does hold): a load returns true and sends events only while a
\* directory is published, its own or that of an earlier load.
C39_EventsOnlyWhenPublished ==
    \A k \in DOMAIN calls :
        (calls[k].res = "true" \/ events_of(k, log) # <<>>)
            => \E j \in 1..k : calls[j].replaced

\* C40: after an update_cache that returned an error, the cache is not
\* classified None (it was not None before, or nothing would have run).
C40_FailedRefreshNotFresh ==
    (upc = "checked" /\ refresh_failed) => after # "None"

\* C40 (what does hold): a refresh that failed before it created or
\* unpacked any file leaves the classification as it was.
C40_FailedDownloadKeepsState ==
    (/\ upc = "checked"
     /\ refresh_failed
     /\ \A f \in FILES : files[f].origin \in {"none", "old"})
        => after = ustate

-----------------------------------------------------------------------------
\* Properties of the checks of the consensus.

\* The files of the cache are there and consensus.txt can be read.
consensus_read(c) ==
    /\ c.defects \cap MissingDefects = {}
    /\ "consensus_unreadable" \notin c.defects

\* The first two checks of a load (FlatFileDirMgr of flatfiledirmgr.rs) of a
\* consensus that was read: a consensus that does not parse gives "Failed to parse consensus", one that
\* parses and is outside its lifetime gives UntimelyObject.
parse_then_lifetime ==
    (calls # <<>> /\ dimpl = "flatfiledirmgr" /\ consensus_read(cache)) =>
        /\ "consensus_malformed" \in cache.defects
                => calls[1].res = ErrParseConsensus
        /\ (/\ "consensus_malformed" \notin cache.defects
            /\ "consensus_untimely" \in cache.defects)
                => calls[1].res = ErrUntimely

\* C34: the checks of the consensus run in the order parse, lifetime,
\* authorities, signature and the first that fails gives the error;
\* UnrecognizedAuthorities is returned only for a consensus that was read,
\* parses, is timely and has the wrong signers.
C34_ConsensusCheckOrder ==
    /\ parse_then_lifetime
    /\ (/\ calls # <<>>
        /\ dimpl = "flatfiledirmgr"
        /\ calls[1].res = ErrUnrecognizedAuthorities) =>
            /\ consensus_read(cache)
            /\ cache.defects \cap {"consensus_malformed", "consensus_untimely"} = {}
            /\ "authorities_wrong" \in cache.defects

\* C34 (what does hold): the order of the checks of a consensus that was
\* read.
C34_ParseThenLifetime == parse_then_lifetime

-----------------------------------------------------------------------------
\* Properties of the foreign-language boundary.

LoggerPanic == "panic: to be the only logger"

\* C31: the initialisation of the logger is a latch: the first call
\* installs the logger, and no later call, the one that every request makes
\* on iOS included, fails or panics.
C31_LoggerInstalledOnce ==
    /\ linits >= 1 => logger
    /\ \A k \in DOMAIN fres : fres[k] # LoggerPanic

\* C31 for the Android library alone.
C31_LoggerInstalledOnceOfAndroid ==
    fplat = "android" => C31_LoggerInstalledOnce

\* C32: whatever the host passes and whatever the core does, an exported
\* function returns the error variant or throws the host's exception; no
\* panic of the request leaves the function.
C32_NoFaultCrossesBoundary ==
    /\ \A k \in DOMAIN fres :
            fres[k] \in {"response", "error", "exception", "void", LoggerPanic}
    /\ host # "running" => fres[Len(fres)] = LoggerPanic

\* C32 (what does hold): the errors that the core returns, and on iOS the
\* panics raised inside _call_arti, reach the host as error or exception.
C32_ReturnedErrorsAreTranslated ==
    (/\ fres # <<>>
     /\ fres[Len(fres)] # "void"
     /\ \/ finput \in {"not_json", "bad_request"}
        \/ fcore \in {"send_fails", "format_fails"}
        \/ fplat = "ios" /\ fcore = "panic")
        => fres[Len(fres)] \in {"error", "exception", LoggerPanic}

\* C35: whatever the side-loaded files hold, the loop of bootstrap::load
\* ends by returning a state; it never counts SAFETY_LIMIT turns in one
\* state and never panics with "Spent 100 iterations in the same state".
C35_LoadLoopTerminates ==
    /\ safety_counter < SAFETY_LIMIT
    /\ mres # PanicSameState

\* C35 (what does hold): with the certificate of the signing key in
\* certificate.txt and every listed microdescriptor in microdescriptors.txt
\* the loop leaves each state after one turn at most.
C35_CompleteFilesTerminate ==
    (docdir.certificate # "other_key" /\ docdir.microdescs # "lacking")
        => safety_counter <= 1 /\ mres # PanicSameState

\* C36: a DirMgr that bootstrap_from_config has returned holds a
\* directory, and netdir() on it does not panic with "DirMgr was not
\* bootstrapped!".
C36_HandleHoldsDirectory ==
    /\ (mpc = "returned" /\ mres = "Ok(dirmgr)") => mnetdir
    /\ mres # PanicNotBootstrapped

\* C36 (what does hold): the DirMgr returned for a timely consensus with
\* its certificate and enough microdescriptors holds a directory, and
\* netdir() panics on no DirMgr that holds one.
C36_CompleteLoadHoldsDirectory ==
    /\ (/\ mres \in {"Ok(dirmgr)", "Ok(netdir)"}
        /\ docdir.consensus = "good"
        /\ docdir.certificate = "good"
        /\ docdir.enough)
            => mnetdir
    /\ mnetdir => mres # PanicNotBootstrapped

\* C37: for a lifetime with valid_after <= fresh_until <= valid_until the
\* replacement time is computed without a subtraction below zero and
\* without an empty range of the generator, and once the directory is
\* usable it is at least 7/4 of the voting interval after valid_after and
\* before valid_until.
C37_ReplacementTimeInRange ==
    /\ mres \notin {PanicSubtract, PanicEmptyRange}
    /\ (dstate.kind = "GetMicrodescsState" /\ ~dstate.partial) =>
            /\ 4 * (dstate.reset_time - docdir.lifetime.valid_after)
                    >= 7 * (docdir.lifetime.fresh_until
                            - docdir.lifetime.valid_after)
            /\ dstate.reset_time < docdir.lifetime.valid_until

\* C37 (what does hold): the same for the lifetimes that last longer than
\* 7/4 of their voting interval.
C37_ReplacementTimeOfLongLifetime ==
    4 * (docdir.lifetime.valid_until - docdir.lifetime.valid_after)
        > 7 * (docdir.lifetime.fresh_until - docdir.lifetime.valid_after)
        => C37_ReplacementTimeInRange
====
